---- MODULE Spec2Model ----
(***************************************************************************)
(* Model of the runtime configuration module (sys/configuration):          *)
(* the handler tree, the SID resolver, the simple and the path iterator,   *)
(* the operation drivers and the default handlers, on the handler tree     *)
(* and RAM backend of tests/sys/configuration.                             *)
(*                                                                         *)
(* SIDs are taken relative to 0x7FFFFFFFFFFFFFDF, so that /food            *)
(* (0x7FFFFFFFFFFFFFE0) is 1.  The root node owns [0, SID_MAX].            *)
(* A configuration value is a sequence of cells; food_t and drink_t and    *)
(* order_item_t are one cell, order_t is two cells (items[2]).             *)
(* The module is built without MODULE_CONFIGURATION_STRINGS: the key has   *)
(* no text buffer and append_segment / append_index return 0.  It is built *)
(* with NDEBUG: assert() expands to nothing.                               *)
(***************************************************************************)
EXTENDS Integers, Sequences, FiniteSets, TLC

(* ---------------------------------------------------------------- bounds *)
\* cell values are 0..MaxVal; 0 is the zero-filled / unparsable price
MaxVal == 2

(* ------------------------------------------------------ program constants *)
ENOENT == 2
ERANGE == 34
ENOBUFS == 105
ENODATA == 61
ECANCELED == 125
EINVAL == 22
ENOTSUP == 95
EIO == 5

TEST_CONFIGURATION_MAX_ORDERS == 3
TEST_FOOD_LOWER_SID == 1
TEST_FOOD_BREAD_LOWER_SID == TEST_FOOD_LOWER_SID + 1
TEST_FOOD_BREAD_WHITE_SID == TEST_FOOD_BREAD_LOWER_SID + 1
TEST_FOOD_BREAD_WHOLE_GRAIN_SID == TEST_FOOD_BREAD_LOWER_SID + 2
TEST_FOOD_BREAD_UPPER_SID == TEST_FOOD_BREAD_LOWER_SID + 2
TEST_FOOD_CAKE_LOWER_SID == TEST_FOOD_BREAD_UPPER_SID + 1
TEST_FOOD_CAKE_CHEESECAKE_SID == TEST_FOOD_CAKE_LOWER_SID + 1
TEST_FOOD_CAKE_DONUT_SID == TEST_FOOD_CAKE_LOWER_SID + 2
TEST_FOOD_CAKE_UPPER_SID == TEST_FOOD_CAKE_LOWER_SID + 2
TEST_FOOD_UPPER_SID == 10
TEST_DRINKS_LOWER_SID == 11
TEST_DRINKS_COFFEE_SID == TEST_DRINKS_LOWER_SID + 1
TEST_DRINKS_TEA_SID == TEST_DRINKS_LOWER_SID + 2
TEST_DRINKS_COCOA_SID == TEST_DRINKS_LOWER_SID + 3
TEST_DRINKS_UPPER_SID == 19
TEST_ORDERS_LOWER_SID == 20
TEST_ORDERS_INDEX_LOWER_SID == 1
TEST_ORDERS_INDEX_STRIDE == 4
TEST_ORDERS_ITEMS_LOWER_SID == TEST_ORDERS_LOWER_SID + TEST_ORDERS_INDEX_LOWER_SID + 1
TEST_ORDERS_ITEMS_INDEX_STRIDE == 1
TEST_ORDERS_ITEMS_NUMOF == 2
TEST_ORDERS_ITEMS_UPPER_SID ==
    TEST_ORDERS_ITEMS_LOWER_SID + (TEST_ORDERS_ITEMS_INDEX_STRIDE * TEST_ORDERS_ITEMS_NUMOF)
TEST_ORDERS_UPPER_SID ==
    TEST_ORDERS_LOWER_SID + (TEST_ORDERS_INDEX_STRIDE * TEST_CONFIGURATION_MAX_ORDERS)

\* the root's sid_upper (UINT64_MAX in the source): one past the last
\* registered range, so that L + 1 + item_count * stride of /orders is a key
SID_MAX == TEST_ORDERS_UPPER_SID + 1
Sids == 0..SID_MAX

\* conf_sid_t arithmetic is unsigned and wraps; the modulus is far above
\* every registered SID, as 2^64 is in the source
SID_MODULUS == 1048576
SidWrap(x) == x % SID_MODULUS

Vals == 0..MaxVal
\* what a read outside the configuration struct yields
Indeterminate == MaxVal + 1

NULL == "NULL"
\* a NULL value pointer: a buffer of no cells
NoBuffer == <<>>

(* ------------------------------------------------------------------ tree *)
\* struct configuration: the cell each member starts at (1-based)
\* and the total number of cells
NCells == 13

Nodes == {"root", "food", "bread", "white", "whole_grain", "cake",
          "cheesecake", "donut", "drinks", "coffee", "tea", "cocoa",
          "orders", "items"}

\* an intermediate node: CONF_HANDLER_NODE (no ops table)
MkNode(lower, upper, subs, next, level) ==
    [sid_lower |-> lower, sid_upper |-> upper, sid_stride |-> 0,
     ops |-> FALSE, verify |-> FALSE, handles_array |-> FALSE,
     data |-> 0, size |-> 0, array_size |-> 0,
     subnodes |-> subs, next |-> next, level |-> level]

\* a scalar handler: CONF_HANDLER with configuration_default_ops and
\* data ops that verify the price
MkHandler(sid, data, next, level) ==
    [sid_lower |-> sid, sid_upper |-> sid, sid_stride |-> 0,
     ops |-> TRUE, verify |-> TRUE, handles_array |-> FALSE,
     data |-> data, size |-> 1, array_size |-> 0,
     subnodes |-> NULL, next |-> next, level |-> level]

\* an array handler: CONF_ARRAY_HANDLER with configuration_default_ops
MkArray(lower, upper, stride, data, size, numof, subs, next, level) ==
    [sid_lower |-> lower, sid_upper |-> upper, sid_stride |-> stride,
     ops |-> TRUE, verify |-> FALSE, handles_array |-> TRUE,
     data |-> data, size |-> size, array_size |-> numof,
     subnodes |-> subs, next |-> next, level |-> level]

\* the registered tree: subnodes is the first child, next the next sibling
Tree ==
    [n \in Nodes |->
        CASE n = "root" -> MkNode(0, SID_MAX, "food", NULL, 0)
          [] n = "food" -> MkNode(TEST_FOOD_LOWER_SID, TEST_FOOD_UPPER_SID, "bread", "drinks", 1)
          [] n = "bread" -> MkNode(TEST_FOOD_BREAD_LOWER_SID, TEST_FOOD_BREAD_UPPER_SID,
                                   "white", "cake", 2)
          [] n = "white" -> MkHandler(TEST_FOOD_BREAD_WHITE_SID, 1, "whole_grain", 3)
          [] n = "whole_grain" -> MkHandler(TEST_FOOD_BREAD_WHOLE_GRAIN_SID, 2, NULL, 3)
          [] n = "cake" -> MkNode(TEST_FOOD_CAKE_LOWER_SID, TEST_FOOD_CAKE_UPPER_SID,
                                  "cheesecake", NULL, 2)
          [] n = "cheesecake" -> MkHandler(TEST_FOOD_CAKE_CHEESECAKE_SID, 3, "donut", 3)
          [] n = "donut" -> MkHandler(TEST_FOOD_CAKE_DONUT_SID, 4, NULL, 3)
          [] n = "drinks" -> MkNode(TEST_DRINKS_LOWER_SID, TEST_DRINKS_UPPER_SID,
                                    "coffee", "orders", 1)
          [] n = "coffee" -> MkHandler(TEST_DRINKS_COFFEE_SID, 5, "tea", 2)
          [] n = "tea" -> MkHandler(TEST_DRINKS_TEA_SID, 6, "cocoa", 2)
          [] n = "cocoa" -> MkHandler(TEST_DRINKS_COCOA_SID, 7, NULL, 2)
          [] n = "orders" -> MkArray(TEST_ORDERS_LOWER_SID, TEST_ORDERS_UPPER_SID,
                                     TEST_ORDERS_INDEX_STRIDE, 8, 2,
                                     TEST_CONFIGURATION_MAX_ORDERS, "items", NULL, 1)
          [] n = "items" -> MkArray(TEST_ORDERS_ITEMS_LOWER_SID, TEST_ORDERS_ITEMS_UPPER_SID,
                                    TEST_ORDERS_ITEMS_INDEX_STRIDE, 8, 1,
                                    TEST_ORDERS_ITEMS_NUMOF, NULL, NULL, 2)
    ]

Handlers == {n \in Nodes : Tree[n].ops}
Arrays == {n \in Nodes : Tree[n].handles_array}

VARIABLES
    tree,               \* the handler nodes as configuration_register linked them
    mem,                \* struct configuration _conf: the in-memory values
    kv,                 \* the backend's records, by SID; <<>> is no record
    src_backend,        \* conf_handler_t.src_backend of every handler
    mutex,              \* conf_handler_t.mutex of every handler: locked or not
    export_as_a_whole,  \* conf_flags.export_as_a_whole of every array handler
    K,                  \* key.sid of the caller's key object, reused from call to
                        \* call (every driver sets key.sid_normal and key.offset anew)
    last,               \* the last call: its arguments and what it returned
    exported,           \* memory as it was at the last export, while it has only
                        \* been overwritten (set) and imported since
    tkey,               \* the key of each thread
    pc,                 \* where each thread is in lock; work; unlock
    todo                \* the mutexes a thread's lock or unlock has yet to take

vars == <<tree, mem, kv, src_backend, mutex, export_as_a_whole, K, last, exported,
          tkey, pc, todo>>

\* a registered node
Node(n) == tree[n]

(* ------------------------------------------------------------ text paths *)
\* With MODULE_CONFIGURATION_STRINGS a key carries a text buffer: used tells
\* whether it does, text is the C string in it as its characters, over
\* whether a character was written past the end of the buffer.
NoText == [used |-> FALSE, text |-> <<>>, over |-> FALSE]

\* node_id->subtree of every node
subtree(n) ==
    CASE n = "root" -> <<>>
      [] n = "food" -> <<"f", "o", "o", "d">>
      [] n = "bread" -> <<"b", "r", "e", "a", "d">>
      [] n = "white" -> <<"w", "h", "i", "t", "e">>
      [] n = "whole_grain" -> <<"w", "h", "o", "l", "e", "_", "g", "r", "a", "i", "n">>
      [] n = "cake" -> <<"c", "a", "k", "e">>
      [] n = "cheesecake" -> <<"c", "h", "e", "e", "s", "e", "c", "a", "k", "e">>
      [] n = "donut" -> <<"d", "o", "n", "u", "t">>
      [] n = "drinks" -> <<"d", "r", "i", "n", "k", "s">>
      [] n = "coffee" -> <<"c", "o", "f", "f", "e", "e">>
      [] n = "tea" -> <<"t", "e", "a">>
      [] n = "cocoa" -> <<"c", "o", "c", "o", "a">>
      [] n = "orders" -> <<"o", "r", "d", "e", "r", "s">>
      [] n = "items" -> <<"i", "t", "e", "m", "s">>

Digits == <<"0", "1", "2", "3", "4", "5", "6", "7", "8", "9">>

isdigit(c) == \E d \in 1..10 : Digits[d] = c

\* fmt_u32_dec: the decimal digits of n
RECURSIVE fmt_u32_dec(_)
fmt_u32_dec(n) ==
    IF n < 10 THEN <<Digits[n + 1]>>
    ELSE fmt_u32_dec(n \div 10) \o <<Digits[(n % 10) + 1]>>

\* strchr(buf, '/') with buf at offset from of text: the offset of the first
\* '/' at or after from, -1 when there is none
strchr(text, from) ==
    IF \E j \in from..(Len(text) - 1) : text[j + 1] = "/"
    THEN CHOOSE j \in from..(Len(text) - 1) :
            /\ text[j + 1] = "/"
            /\ \A k \in from..(j - 1) : text[k + 1] # "/"
    ELSE -1

\* where buf is after the body of the loop of _configuration_append_segment
\* that follows the test for '/': moved past an index that another segment
\* follows, and otherwise where it was
AfterIndex(text, p, slash) ==
    IF slash >= 0 /\ slash + 1 < Len(text) /\ isdigit(text[slash + 2])
       /\ strchr(text, slash + 1) >= 0
    THEN strchr(text, slash + 1)
    ELSE p

\* the loop of _configuration_append_segment: the offset buf is at after l
\* turns from offset p, -1 when a turn found no '/' at buf
RECURSIVE SegmentStart(_, _, _)
SegmentStart(text, p, l) ==
    IF l <= 0 THEN p
    ELSE IF p >= Len(text) \/ text[p + 1] # "/" THEN -1
    ELSE SegmentStart(text, AfterIndex(text, p + 1, strchr(text, p + 1)), l - 1)

\* *buf = 0 at offset p, the check of the size and the two strcat
AppendAt(next, str, size, p) ==
    IF p < 0 THEN [ret |-> -EINVAL, str |-> str]
    ELSE IF size < 1 + Len(subtree(next)) + 1
    THEN [ret |-> -ENOBUFS, str |-> [str EXCEPT !.text = SubSeq(@, 1, p)]]
    ELSE [ret |-> 0,
          str |-> [str EXCEPT !.text = SubSeq(@, 1, p) \o <<"/">> \o subtree(next),
                              !.over = @ \/ p + 1 + Len(subtree(next)) + 1 > size]]

\* returns ret and the buffer; without a text buffer it does nothing
_configuration_append_segment(next, str, size) ==
    IF ~str.used \/ subtree(next) = <<>> THEN [ret |-> 0, str |-> str]
    ELSE AppendAt(next, str, size, SegmentStart(str.text, 0, Node(next).level - 1))

_configuration_append_index(index, str, size) ==
    IF ~str.used THEN [ret |-> 0, str |-> str]
    ELSE IF SidWrap(size - Len(str.text)) < 1 + Len(fmt_u32_dec(index)) + 1
    THEN [ret |-> -ENOBUFS, str |-> str]
    ELSE [ret |-> 0,
          str |-> [str EXCEPT !.text = @ \o <<"/">> \o fmt_u32_dec(index),
                              !.over = @ \/ Len(str.text) + 1 + Len(fmt_u32_dec(index)) + 1
                                              > size]]

(* -------------------------------------------------------------- resolver *)
IsArray(n) == Node(n).ops /\ Node(n).handles_array

_sid_in_node_range(n, sid) == Node(n).sid_lower <= sid /\ sid <= Node(n).sid_upper

_sid_in_array_range(n, sid) == Node(n).sid_lower <= sid /\ sid <= Node(n).sid_upper

_sid_in_range(n, sid) ==
    IF IsArray(n) THEN _sid_in_array_range(n, sid)
    ELSE IF ~Node(n).ops THEN _sid_in_node_range(n, sid)
    ELSE Node(n).sid_lower = sid

\* a variant that counts the index from the lower bound itself
ItemIndexFromLower(n, sid) == (sid - Node(n).sid_lower) \div Node(n).sid_stride

\* the index of an item identifier, as uint32_t arithmetic on sid > lower
ItemIndex(n, sid) == (sid - Node(n).sid_lower - 1) \div Node(n).sid_stride

_sid_in_array_bounds(n, sid) ==
    IF sid > Node(n).sid_lower
    THEN ItemIndex(n, sid) < Node(n).array_size
    ELSE TRUE

\* the first sub-node of a sibling list, from sub on, whose range holds sid
RECURSIVE FirstInRange(_, _)
FirstInRange(sub, sid) ==
    IF sub = NULL THEN NULL
    ELSE IF _sid_in_range(sub, sid) THEN sub
    ELSE FirstInRange(Node(sub).next, sid)

\* the while loop of _configuration_find_handler_sid; str is the text
\* buffer and len its length
RECURSIVE FindDescend(_, _, _, _, _)
RECURSIVE FindStep(_, _, _, _, _, _)
RECURSIVE FindSegment(_, _, _, _, _, _)
RECURSIVE FindIndex(_, _, _, _, _, _)

\* a variant that stops at the array whose item is addressed
FindIndexStops(handler, sid, offset, len, sub, a) ==
    [ret |-> IF a.ret # 0 THEN -ENOBUFS ELSE 0,
     handler |-> IF a.ret # 0 THEN handler ELSE sub,
     sid |-> sid - ItemIndex(sub, sid) * Node(sub).sid_stride,
     offset |-> offset + ItemIndex(sub, sid) * Node(sub).size, str |-> a.str]

\* an item of the array sub is addressed, a what appending its index gave
FindIndex(handler, sid, offset, len, sub, a) ==
    IF a.ret # 0
    THEN [ret |-> -ENOBUFS, handler |-> handler,
          sid |-> sid - ItemIndex(sub, sid) * Node(sub).sid_stride,
          offset |-> offset + ItemIndex(sub, sid) * Node(sub).size, str |-> a.str]
    ELSE FindDescend(sub, sid - ItemIndex(sub, sid) * Node(sub).sid_stride,
                     offset + ItemIndex(sub, sid) * Node(sub).size, a.str, len)

\* sub is the sub-node whose range holds sid, a what appending its segment
\* gave
FindSegment(handler, sid, offset, len, sub, a) ==
    IF a.ret # 0
    THEN [ret |-> -ENOBUFS, handler |-> handler, sid |-> sid, offset |-> offset,
          str |-> a.str]
    ELSE IF sid # Node(sub).sid_lower /\ IsArray(sub)
    THEN IF ItemIndex(sub, sid) >= Node(sub).array_size
         THEN [ret |-> -ERANGE, handler |-> handler, sid |-> sid, offset |-> offset,
               str |-> a.str]
         ELSE FindIndex(handler, sid, offset, len, sub,
                        IF len # 0
                        THEN _configuration_append_index(ItemIndex(sub, sid), a.str, len)
                        ELSE [ret |-> 0, str |-> a.str])
    ELSE FindDescend(sub, sid, offset, a.str, len)

\* one turn of the loop, sub the sub-node whose range holds sid
FindStep(handler, sid, offset, str, len, sub) ==
    IF sub = NULL
    THEN [ret |-> 0, handler |-> handler, sid |-> sid, offset |-> offset, str |-> str]
    ELSE FindSegment(handler, sid, offset, len, sub,
                     IF len # 0
                     THEN _configuration_append_segment(sub, str, len)
                     ELSE [ret |-> 0, str |-> str])

FindDescend(handler, sid, offset, str, len) ==
    FindStep(handler, sid, offset, str, len, FirstInRange(Node(handler).subnodes, sid))

\* a variant that takes the node the loop arrived at as the match
FindAccepts(r) == r

\* the checks of _configuration_find_handler_sid after its loop, on what
\* the loop arrived at
FindCheck(r) ==
    IF r.ret < 0 THEN r
    ELSE IF r.sid # Node(r.handler).sid_lower
    THEN IF IsArray(r.handler)
         THEN IF _sid_in_array_bounds(r.handler, r.sid)
              THEN r
              ELSE [r EXCEPT !.ret = -ERANGE]
         ELSE [r EXCEPT !.ret = -ENOENT]
    ELSE r

_configuration_find_handler_sid(root, sid, offset, str, len) ==
    IF ~_sid_in_range(root, sid)
    THEN [ret |-> -ENOENT, handler |-> root, sid |-> sid, offset |-> offset, str |-> str]
    ELSE FindCheck(FindDescend(root, sid, offset, str, len))

\* a key object: CONF_KEY_T without the text buffer
MkKey(sid) == [sid |-> sid, sid_normal |-> 0, offset |-> 0, buf_len |-> 0, buf |-> NoText]

\* CONF_KEY(name, sid, len): a key object with a text buffer of len
\* characters that holds the empty string
MkTextKey(sid, len) ==
    [sid |-> sid, sid_normal |-> 0, offset |-> 0, buf_len |-> len,
     buf |-> [used |-> TRUE, text |-> <<>>, over |-> FALSE]]

\* the key and the handler as _configuration_prepare_sid leaves them, r
\* being what the search returned
Prepared(key, r) ==
    [ret |-> r.ret, handler |-> r.handler,
     key |-> [key EXCEPT !.sid_normal = r.sid, !.offset = r.offset, !.buf = r.str]]

\* returns the result code, the handler found and the key as it leaves
_configuration_prepare_sid(root, key) ==
    Prepared(key, _configuration_find_handler_sid(root, key.sid, 0,
                                                  [key.buf EXCEPT !.text = <<>>],
                                                  key.buf_len))

(* ------------------------------------------------------------- iterators *)
\* a variant that starts every walk at the root of the tree
IteratorFromRoot(handler, max_depth) ==
    [root |-> "root", max_depth |-> max_depth, stack |-> <<"root">>]

\* a variant that always walks with full depth
IteratorInitDeep(handler, max_depth) ==
    [root |-> handler, max_depth |-> TRUE, stack |-> <<handler>>]

\* conf_iterator_t: the stack holds nodes, its top is the last element
_configuration_iterator_init(handler, max_depth) ==
    [root |-> handler, max_depth |-> max_depth, stack |-> <<handler>>]

\* conf_path_iterator_t: the stack holds <<node, index>> items
_configuration_path_iterator_init(handler, max_depth, sid) ==
    [root |-> handler, max_depth |-> max_depth,
     stack |-> << [node |-> handler,
                   index |-> IF sid > Node(handler).sid_lower
                             THEN ItemIndex(handler, sid)
                             ELSE 0] >>]

Pop(stack) == SubSeq(stack, 1, Len(stack) - 1)
Top(stack) == stack[Len(stack)]

\* a variant that pushes the first sub-node twice
SimpleYieldTwice(iter, key) ==
    IF Len(iter.stack) = 0
    THEN [node |-> NULL, iter |-> iter, key |-> key]
    ELSE LET next == Top(iter.stack)
             nd == Node(next)
             notroot == next # iter.root
             key1 == IF notroot
                     THEN [key EXCEPT
                             !.sid = SidWrap(key.sid + nd.sid_lower - key.sid_normal),
                             !.sid_normal = nd.sid_lower]
                     ELSE key
             st1 == IF notroot /\ nd.next # NULL
                    THEN Append(Pop(iter.stack), nd.next)
                    ELSE Pop(iter.stack)
             st2 == IF nd.subnodes # NULL /\ (~nd.ops \/ iter.max_depth)
                    THEN Append(Append(st1, nd.subnodes), nd.subnodes)
                    ELSE st1
         IN [node |-> next, iter |-> [iter EXCEPT !.stack = st2], key |-> key1]

\* a variant that pushes the sub-nodes before the sibling, so that the
\* sibling is popped first
SimpleYieldSiblingFirst(iter, key) ==
    IF Len(iter.stack) = 0
    THEN [node |-> NULL, iter |-> iter, key |-> key]
    ELSE LET next == Top(iter.stack)
             nd == Node(next)
             notroot == next # iter.root
             key1 == IF notroot
                     THEN [key EXCEPT
                             !.sid = SidWrap(key.sid + nd.sid_lower - key.sid_normal),
                             !.sid_normal = nd.sid_lower]
                     ELSE key
             st1 == IF nd.subnodes # NULL /\ (~nd.ops \/ iter.max_depth)
                    THEN Append(Pop(iter.stack), nd.subnodes)
                    ELSE Pop(iter.stack)
             st2 == IF notroot /\ nd.next # NULL
                    THEN Append(st1, nd.next)
                    ELSE st1
         IN [node |-> next, iter |-> [iter EXCEPT !.stack = st2], key |-> key1]

\* a variant that goes on to the siblings of the node the walk started at
SimpleYieldSiblings(iter, key) ==
    IF Len(iter.stack) = 0
    THEN [node |-> NULL, iter |-> iter, key |-> key]
    ELSE LET next == Top(iter.stack)
             nd == Node(next)
             key1 == IF next # iter.root
                     THEN [key EXCEPT
                             !.sid = SidWrap(key.sid + nd.sid_lower - key.sid_normal),
                             !.sid_normal = nd.sid_lower]
                     ELSE key
             st1 == IF nd.next # NULL
                    THEN Append(Pop(iter.stack), nd.next)
                    ELSE Pop(iter.stack)
             st2 == IF nd.subnodes # NULL /\ (~nd.ops \/ iter.max_depth)
                    THEN Append(st1, nd.subnodes)
                    ELSE st1
         IN [node |-> next, iter |-> [iter EXCEPT !.stack = st2], key |-> key1]

\* what _configuration_handler_sid_iterator_next yields when the segment
\* of the node is appended: the node (NULL at the end), the iterator and the
\* key, the text of the key apart
SimpleYield(iter, key) ==
    IF Len(iter.stack) = 0
    THEN [node |-> NULL, iter |-> iter, key |-> key]
    ELSE LET next == Top(iter.stack)
             nd == Node(next)
             notroot == next # iter.root
             key1 == IF notroot
                     THEN [key EXCEPT
                             !.sid = SidWrap(key.sid + nd.sid_lower - key.sid_normal),
                             !.sid_normal = nd.sid_lower]
                     ELSE key
             st1 == IF notroot /\ nd.next # NULL
                    THEN Append(Pop(iter.stack), nd.next)
                    ELSE Pop(iter.stack)
             st2 == IF nd.subnodes # NULL /\ (~nd.ops \/ iter.max_depth)
                    THEN Append(st1, nd.subnodes)
                    ELSE st1
         IN [node |-> next, iter |-> [iter EXCEPT !.stack = st2], key |-> key1]

\* y is what the iterator yields, a what appending the segment of the node
\* popped gave: a segment that does not fit ends the walk
SimpleText(iter, key, y, a) ==
    IF a.ret # 0
    THEN [node |-> NULL, iter |-> [iter EXCEPT !.stack = Pop(@)],
          key |-> [key EXCEPT !.buf = a.str]]
    ELSE [y EXCEPT !.key.buf = a.str]

\* returns the node yielded (NULL at the end), the iterator and the key
_configuration_handler_sid_iterator_next(iter, key) ==
    IF Len(iter.stack) = 0 \/ ~key.buf.used \/ Top(iter.stack) = iter.root
    THEN SimpleYield(iter, key)
    ELSE SimpleText(iter, key, SimpleYield(iter, key),
                    _configuration_append_segment(Top(iter.stack), key.buf, key.buf_len))

\* what _configuration_path_sid_iterator_next yields when the segment and
\* the index are appended, the text of the key apart; whole is
\* conf_flags.export_as_a_whole of the array handlers
PathYield(iter, key, sid_start, whole) ==
    IF Len(iter.stack) = 0
    THEN [node |-> NULL, iter |-> iter, key |-> key]
    ELSE LET next == Top(iter.stack)
             nd == Node(next.node)
             popped == Pop(iter.stack)
             key1 == IF nd.sid_lower > key.sid_normal
                     THEN [key EXCEPT
                             !.sid = SidWrap(key.sid + nd.sid_lower - key.sid_normal),
                             !.sid_normal = nd.sid_lower]
                     ELSE key
             per_item == IsArray(next.node) /\ ~whole[next.node]
             skip == key1.sid = sid_start /\ nd.sid_lower < key1.sid_normal
             item_sid == nd.sid_lower + 1 + next.index * nd.sid_stride
             key2 == IF per_item
                     THEN IF next.index = 0
                          THEN IF key1.sid_normal = nd.sid_lower
                               THEN [key1 EXCEPT !.sid = SidWrap(key1.sid + 1),
                                                 !.sid_normal = SidWrap(key1.sid_normal + 1)]
                               ELSE key1
                          ELSE IF key1.sid # sid_start
                               THEN [key1 EXCEPT
                                       !.sid = IF item_sid > key1.sid
                                               THEN item_sid
                                               ELSE SidWrap(key1.sid + (nd.sid_stride -
                                                       (key1.sid_normal - (nd.sid_lower + 1)))),
                                       !.sid_normal = nd.sid_lower + 1,
                                       !.offset = next.index * nd.size]
                               ELSE key1
                     ELSE [key1 EXCEPT !.sid_normal = nd.sid_lower]
             sibling == IF next.node # iter.root /\ nd.next # NULL
                        THEN Append(popped, [node |-> nd.next, index |-> 0])
                        ELSE popped
             st1 == IF per_item
                    THEN IF ~skip
                         THEN IF next.index + 1 < nd.array_size
                              THEN Append(popped, [node |-> next.node,
                                                   index |-> next.index + 1])
                              ELSE sibling
                         ELSE popped
                    ELSE sibling
             array_as_a_whole == IsArray(next.node) /\ whole[next.node]
             st2 == IF nd.subnodes # NULL /\ (~nd.ops \/ iter.max_depth)
                       /\ ~array_as_a_whole
                    THEN Append(st1, [node |-> nd.subnodes, index |-> 0])
                    ELSE st1
         IN [node |-> next.node, iter |-> [iter EXCEPT !.stack = st2], key |-> key2]

\* the key after the first step of _configuration_path_sid_iterator_next,
\* next the item popped
PathRetargeted(next, key) ==
    IF Node(next.node).sid_lower > key.sid_normal
    THEN [key EXCEPT !.sid = SidWrap(key.sid + Node(next.node).sid_lower - key.sid_normal),
                     !.sid_normal = Node(next.node).sid_lower]
    ELSE key

\* y is what the iterator yields, a what appending the index gave
PathIndexed(iter, y, a) ==
    IF a.ret # 0
    THEN [node |-> NULL, iter |-> [iter EXCEPT !.stack = Pop(@)],
          key |-> [y.key EXCEPT !.buf = a.str]]
    ELSE [y EXCEPT !.key.buf = a.str]

\* key1 is the key after the first step, a what appending the segment gave;
\* a segment or an index that does not fit ends the walk
PathText(iter, key1, sid_start, whole, y, a) ==
    IF a.ret # 0
    THEN [node |-> NULL, iter |-> [iter EXCEPT !.stack = Pop(@)],
          key |-> [key1 EXCEPT !.buf = a.str]]
    ELSE IF IsArray(y.node) /\ ~whole[y.node]
    THEN PathIndexed(iter, y,
                     IF y.key.sid # sid_start
                     THEN _configuration_append_index(Top(iter.stack).index, a.str,
                                                      key1.buf_len)
                     ELSE [ret |-> 0, str |-> a.str])
    ELSE [y EXCEPT !.key.buf = a.str]

\* key1 is the key after the first step
PathSegment(iter, key1, sid_start, whole, y) ==
    PathText(iter, key1, sid_start, whole, y,
             IF key1.sid # sid_start
             THEN _configuration_append_segment(Top(iter.stack).node, key1.buf,
                                                key1.buf_len)
             ELSE [ret |-> 0, str |-> key1.buf])

_configuration_path_sid_iterator_next(iter, key, sid_start, whole) ==
    IF Len(iter.stack) = 0 \/ ~key.buf.used
    THEN PathYield(iter, key, sid_start, whole)
    ELSE PathSegment(iter, PathRetargeted(Top(iter.stack), key), sid_start, whole,
                     PathYield(iter, key, sid_start, whole))

(* ------------------------------------------------- memory and the backend *)
\* n cells of _conf from cell at on; a read past the struct is indeterminate
ReadCells(m, at, n) ==
    [j \in 1..n |-> IF at + j - 1 \in 1..NCells THEN m[at + j - 1] ELSE Indeterminate]

\* memcpy into _conf from cell at on
WriteCells(m, at, cells) ==
    [i \in 1..NCells |-> IF i >= at /\ i < at + Len(cells) THEN cells[i - at + 1] ELSE m[i]]

OutOfBounds(at, n) == n > 0 /\ (at < 1 \/ at + n - 1 > NCells)

Zeros(n) == [j \in 1..n |-> 0]

\* what the drivers and handlers act on: memory, the backend's records, the
\* backend calls made, the handler callbacks invoked, whether memory outside
\* _conf was accessed, and what a store to the FlashDB backend comes back
\* with during the call
MkEnv(m, k, src) ==
    [mem |-> m, kv |-> k, src_backend |-> src, calls |-> <<>>, cbs |-> <<>>, oob |-> FALSE,
     fdb |-> 0]

Invoked(env, op, handler, key, ret) ==
    [env EXCEPT !.cbs = Append(@, [op |-> op, handler |-> handler, sid |-> key.sid,
                                   sid_normal |-> key.sid_normal, offset |-> key.offset,
                                   ret |-> ret])]

\* a backend load that finds no record
LoadNothing(env, key, at, size) == [ret |-> -ENOENT, env |-> env]

\* the backend: load, store and delete as the RAM backend does them on the
\* record the key's SID matches; the table has a row for every key it is
\* used with, and a row marked deleted is <<>>
_be_ram_load(env, key, at, size) ==
    IF key.sid \in Sids /\ env.kv[key.sid] # <<>>
    THEN LET rec == env.kv[key.sid]
             cells == [j \in 1..size |-> IF j <= Len(rec) THEN rec[j] ELSE Indeterminate]
         IN [ret |-> 0,
             env |-> [env EXCEPT !.mem = WriteCells(@, at, cells),
                                 !.oob = @ \/ OutOfBounds(at, size),
                                 !.calls = Append(@, [op |-> "load", sid |-> key.sid,
                                                      data |-> cells, ret |-> 0])]]
    ELSE [ret |-> -ENOENT,
          env |-> [env EXCEPT !.calls = Append(@, [op |-> "load", sid |-> key.sid,
                                                   data |-> <<>>, ret |-> -ENOENT])]]

_be_ram_store(env, key, at, size) ==
    LET cells == ReadCells(env.mem, at, size) IN
    IF key.sid \in Sids
    THEN [ret |-> 0,
          env |-> [env EXCEPT !.kv[key.sid] = cells,
                              !.oob = @ \/ OutOfBounds(at, size),
                              !.calls = Append(@, [op |-> "store", sid |-> key.sid,
                                                   data |-> cells, ret |-> 0])]]
    ELSE [ret |-> -ENOENT,
          env |-> [env EXCEPT !.calls = Append(@, [op |-> "store", sid |-> key.sid,
                                                   data |-> cells, ret |-> -ENOENT])]]

_be_ram_delete(env, key) ==
    IF key.sid \in Sids
    THEN [ret |-> 0,
          env |-> [env EXCEPT !.kv[key.sid] = <<>>,
                              !.calls = Append(@, [op |-> "delete", sid |-> key.sid,
                                                   data |-> <<>>, ret |-> 0])]]
    ELSE [ret |-> -ENOENT,
          env |-> [env EXCEPT !.calls = Append(@, [op |-> "delete", sid |-> key.sid,
                                                   data |-> <<>>, ret |-> -ENOENT])]]

\* the FlashDB backend's load: -EIO when fdb_kv_get_blob finds nothing
_be_fdb_load(env, key, at, size) ==
    IF key.sid \in Sids /\ env.kv[key.sid] # <<>>
    THEN _be_ram_load(env, key, at, size)
    ELSE [ret |-> -EIO,
          env |-> [env EXCEPT !.calls = Append(@, [op |-> "load", sid |-> key.sid,
                                                   data |-> <<>>, ret |-> -EIO])]]

\* the FlashDB backend's store: -EIO when fdb_kv_set_blob fails, and nothing
\* is written; otherwise the blob is written and the result is 0 or, with
\* blob.saved.len read as zero, -ENODATA
_be_fdb_store(env, key, at, size) ==
    LET cells == ReadCells(env.mem, at, size) IN
    IF env.fdb = -EIO
    THEN [ret |-> -EIO,
          env |-> [env EXCEPT !.calls = Append(@, [op |-> "store", sid |-> key.sid,
                                                   data |-> cells, ret |-> -EIO])]]
    ELSE [ret |-> env.fdb,
          env |-> [env EXCEPT !.kv[key.sid] = cells,
                              !.oob = @ \/ OutOfBounds(at, size),
                              !.calls = Append(@, [op |-> "store", sid |-> key.sid,
                                                   data |-> cells, ret |-> env.fdb])]]

\* the FlashDB backend's delete: -EIO when fdb_kv_del fails; a key without a
\* record is not an error
_be_fdb_delete(env, key) ==
    IF env.fdb = -EIO
    THEN [ret |-> -EIO,
          env |-> [env EXCEPT !.calls = Append(@, [op |-> "delete", sid |-> key.sid,
                                                   data |-> <<>>, ret |-> -EIO])]]
    ELSE [ret |-> 0,
          env |-> [env EXCEPT !.kv[key.sid] = <<>>,
                              !.calls = Append(@, [op |-> "delete", sid |-> key.sid,
                                                   data |-> <<>>, ret |-> 0])]]

\* a store that does nothing
StoreNothing(env, handler, key, at, size) == [ret |-> 0, env |-> env]

\* handler->src_backend->ops->be_load, be_store and be_delete of the backend
\* the handler is bound to
be_load(env, handler, key, at, size) ==
    IF env.src_backend[handler] = "fdb"
    THEN _be_fdb_load(env, key, at, size)
    ELSE _be_ram_load(env, key, at, size)

be_delete(env, handler, key) ==
    IF env.src_backend[handler] = "fdb"
    THEN _be_fdb_delete(env, key)
    ELSE _be_ram_delete(env, key)

be_store(env, handler, key, at, size) ==
    IF env.src_backend[handler] = "fdb"
    THEN _be_fdb_store(env, key, at, size)
    ELSE _be_ram_store(env, key, at, size)

(* ------------------------------------------------------- default handlers *)
\* a variant for which no key addresses an array as a whole
NeverWholeArray(handler, key) == FALSE

AddressesWholeArray(handler, key) ==
    Node(handler).handles_array /\ Node(handler).sid_lower = key.sid_normal

\* a variant that copies one value's cells and leaves the size as it is
SetKeepsSize(env, handler, key, val, pos, size) ==
    IF val # NoBuffer /\ size < Node(handler).size
    THEN [ret |-> -ENOBUFS, env |-> env, size |-> size]
    ELSE [ret |-> 0,
          env |-> [env EXCEPT !.mem = WriteCells(@, Node(handler).data + key.offset,
                                  IF val = NoBuffer THEN Zeros(Node(handler).size)
                                  ELSE SubSeq(val, pos, pos + Node(handler).size - 1))],
          size |-> size]

\* a variant that clears one value's cells whatever the key addresses
SetClearsOne(env, handler, key, val, pos, size) ==
    IF val # NoBuffer
    THEN SetKeepsSize(env, handler, key, val, pos, size)
    ELSE [ret |-> 0,
          env |-> [env EXCEPT !.mem = WriteCells(@, Node(handler).data + key.offset,
                                                 Zeros(Node(handler).size))],
          size |-> size]

\* a variant that writes at the handler's data whatever the key's offset
SetAtBase(env, handler, key, val, pos, size) ==
    IF val # NoBuffer /\ size < Node(handler).size
    THEN [ret |-> -ENOBUFS, env |-> env, size |-> size]
    ELSE [ret |-> 0,
          env |-> [env EXCEPT !.mem = WriteCells(@, Node(handler).data,
                                  IF val = NoBuffer THEN Zeros(Node(handler).size)
                                  ELSE SubSeq(val, pos, pos + Node(handler).size - 1))],
          size |-> IF val = NoBuffer THEN size ELSE size - Node(handler).size]

\* val is the caller's buffer (NoBuffer, a NULL pointer, to clear), pos the
\* cell of it the value pointer is at, size the size left; returns ret, the
\* environment and the size left
configuration_set_handler_default(env, handler, key, val, pos, size) ==
    LET nd == Node(handler)
        sz == IF AddressesWholeArray(handler, key)
              THEN nd.size * nd.array_size
              ELSE nd.size
        at == nd.data + key.offset
    IN IF val # NoBuffer /\ size < sz
       THEN [ret |-> -ENOBUFS, env |-> env, size |-> size]
       ELSE IF val # NoBuffer
       THEN [ret |-> 0,
             env |-> [env EXCEPT !.mem = WriteCells(@, at, SubSeq(val, pos, pos + sz - 1)),
                                 !.oob = @ \/ OutOfBounds(at, sz)],
             size |-> size - sz]
       ELSE [ret |-> 0,
             env |-> [env EXCEPT !.mem = WriteCells(@, at, Zeros(sz)),
                                 !.oob = @ \/ OutOfBounds(at, sz)],
             size |-> size]

\* a variant that copies the value and leaves the size as it is
GetKeepsSize(env, handler, key, buf, pos, size) ==
    [ret |-> 0,
     env |-> env,
     buf |-> [j \in 1..Len(buf) |->
                IF j >= pos /\ j < pos + Node(handler).size
                THEN ReadCells(env.mem, Node(handler).data + key.offset,
                               Node(handler).size)[j - pos + 1]
                ELSE buf[j]],
     overrun |-> pos + Node(handler).size - 1 > Len(buf),
     size |-> size]

\* buf is the caller's buffer, pos the cell the value pointer is at, size the
\* size left (size_t: it wraps); cells past the end of buf are not kept
configuration_get_handler_default(env, handler, key, buf, pos, size) ==
    LET nd == Node(handler)
        sz == nd.size
        at == nd.data + key.offset
        cells == ReadCells(env.mem, at, sz)
    IN [ret |-> 0,
        env |-> [env EXCEPT !.oob = @ \/ OutOfBounds(at, sz)],
        buf |-> [j \in 1..Len(buf) |-> IF j >= pos /\ j < pos + sz
                                       THEN cells[j - pos + 1] ELSE buf[j]],
        overrun |-> pos + sz - 1 > Len(buf),
        size |-> SidWrap(size - sz)]

\* the per-item loops of the default import, export and delete handlers
RECURSIVE ImportItems(_, _, _, _)
ImportItems(env, handler, key, at) ==
    IF at >= Node(handler).array_size THEN env
    ELSE LET r == be_load(env, handler, key,
                          Node(handler).data + key.offset + at * Node(handler).size,
                          Node(handler).size)
         IN ImportItems(r.env, handler,
                        [key EXCEPT !.sid = SidWrap(@ + Node(handler).sid_stride)], at + 1)

RECURSIVE ExportItems(_, _, _, _)
ExportItems(env, handler, key, at) ==
    IF at >= Node(handler).array_size THEN env
    ELSE LET r == be_store(env, handler, key,
                           Node(handler).data + key.offset + at * Node(handler).size,
                           Node(handler).size)
         IN ExportItems(r.env, handler,
                        [key EXCEPT !.sid = SidWrap(@ + Node(handler).sid_stride)], at + 1)

RECURSIVE DeleteItems(_, _, _, _)
DeleteItems(env, handler, key, at) ==
    IF at >= Node(handler).array_size THEN env
    ELSE LET r == be_delete(env, handler, key)
         IN DeleteItems(r.env, handler,
                        [key EXCEPT !.sid = SidWrap(@ + Node(handler).sid_stride)], at + 1)

\* a variant that imports nothing
ImportNothing(env, handler, key, whole) == [ret |-> 0, env |-> env]

\* each returns ret and the environment; key.sid is restored on return, so the
\* key leaves as it came
configuration_import_handler_default(env, handler, key, whole) ==
    LET nd == Node(handler)
        sz == IF AddressesWholeArray(handler, key) /\ whole[handler]
              THEN nd.size * nd.array_size
              ELSE nd.size
    IN IF env.src_backend[handler] = NULL
       THEN [ret |-> -ENODATA, env |-> env]
       ELSE IF ~nd.handles_array \/ nd.sid_lower # key.sid_normal \/ whole[handler]
       THEN IF nd.handles_array /\ nd.sid_lower # key.sid_normal /\ whole[handler]
            THEN [ret |-> 0, env |-> env]
            ELSE [ret |-> 0, env |-> be_load(env, handler, key, nd.data + key.offset, sz).env]
       ELSE [ret |-> 0,
             env |-> ImportItems(env, handler, [key EXCEPT !.sid = SidWrap(@ + 1)], 0)]

configuration_export_handler_default(env, handler, key, whole) ==
    LET nd == Node(handler)
        sz == IF AddressesWholeArray(handler, key) /\ whole[handler]
              THEN nd.size * nd.array_size
              ELSE nd.size
    IN IF env.src_backend[handler] = NULL
       THEN [ret |-> -ENODATA, env |-> env]
       ELSE IF ~nd.handles_array \/ nd.sid_lower # key.sid_normal \/ whole[handler]
       THEN IF nd.handles_array /\ nd.sid_lower # key.sid_normal /\ whole[handler]
            THEN [ret |-> 0, env |-> env]
            ELSE [ret |-> 0, env |-> be_store(env, handler, key, nd.data + key.offset, sz).env]
       ELSE [ret |-> 0,
             env |-> ExportItems(env, handler, [key EXCEPT !.sid = SidWrap(@ + 1)], 0)]

configuration_delete_handler_default(env, handler, key, whole) ==
    LET nd == Node(handler)
    IN IF env.src_backend[handler] = NULL
       THEN [ret |-> -ENODATA, env |-> env]
       ELSE IF ~nd.handles_array \/ nd.sid_lower # key.sid_normal \/ whole[handler]
       THEN IF nd.handles_array /\ nd.sid_lower # key.sid_normal /\ whole[handler]
            THEN [ret |-> 0, env |-> env]
            ELSE [ret |-> 0, env |-> be_delete(env, handler, key).env]
       ELSE [ret |-> 0,
             env |-> DeleteItems(env, handler, [key EXCEPT !.sid = SidWrap(@ + 1)], 0)]

(* --------------------------------------------------------------- data ops *)
\* _verify_price on the handler's value: 0 when the price parses
_verify_price(price) == price # 0 /\ price # Indeterminate

\* a variant that accepts every value
VerifyAccepts(env, handler) == 0

\* ops_dat->verify of a food or drink handler
ops_dat_verify(env, handler) ==
    IF _verify_price(env.mem[Node(handler).data]) THEN 0 ELSE -EINVAL

(* ---------------------------------------------------------------- drivers *)
\* a variant that leaves the identifier where the walk ended
KeepSid(key, sid) == key

\* key->sid = sid: every driver puts the caller's identifier back
RestoreSid(key, sid) == [key EXCEPT !.sid = sid]

\* the value pointer moved on by what the handler consumed; a NULL pointer
\* stays as it is
Advance(val, pos, n) == IF val = NoBuffer THEN pos ELSE pos + n

\* what a driver returns: the result of its loop with the caller's identifier
\* put back into the key
\* key_len: the length of the text in the key once it is resolved
KeyLen(key) == IF key.buf.used THEN Len(key.buf.text) ELSE 0

\* if (key_len) configuration_key_buf(key)[key_len] = 0
RestoreText(key, key_len) ==
    IF key_len # 0 /\ Len(key.buf.text) > key_len
    THEN [key EXCEPT !.buf.text = SubSeq(@, 1, key_len)]
    ELSE key

Return(r, sid, key_len) ==
    [r EXCEPT !.key = RestoreSid(RestoreText(r.key, key_len), sid)]

\* In the loops below, it is what the iterator returned for this turn: the
\* node, the iterator and the key.

\* a variant that goes on after a callback has failed
RECURSIVE SetLoopOn(_, _, _, _, _)
SetLoopOn(it, env, val, pos, size) ==
    IF it.node = NULL THEN [ret |-> 0, key |-> it.key, env |-> env, size |-> size]
    ELSE IF ~Node(it.node).ops
    THEN SetLoopOn(_configuration_handler_sid_iterator_next(it.iter, it.key),
                   env, val, pos, size)
    ELSE LET h == configuration_set_handler_default(env, it.node, it.key, val, pos, size)
         IN SetLoopOn(_configuration_handler_sid_iterator_next(it.iter, it.key),
                      Invoked(h.env, "set", it.node, it.key, h.ret),
                      val, Advance(val, pos, size - h.size), h.size)

RECURSIVE SetLoop(_, _, _, _, _)
SetLoop(it, env, val, pos, size) ==
    IF it.node = NULL THEN [ret |-> 0, key |-> it.key, env |-> env, size |-> size]
    ELSE IF ~Node(it.node).ops
    THEN SetLoop(_configuration_handler_sid_iterator_next(it.iter, it.key),
                 env, val, pos, size)
    ELSE LET h == configuration_set_handler_default(env, it.node, it.key, val, pos, size)
             e == Invoked(h.env, "set", it.node, it.key, h.ret)
         IN IF h.ret # 0
            THEN [ret |-> h.ret, key |-> it.key, env |-> e, size |-> h.size]
            ELSE SetLoop(_configuration_handler_sid_iterator_next(it.iter, it.key),
                         e, val, Advance(val, pos, size - h.size), h.size)

\* a variant that does not look at what the resolution returned
SetUnresolved(p, sid, env, val, size) ==
    Return(SetLoop(_configuration_handler_sid_iterator_next(
                       _configuration_iterator_init(p.handler, FALSE), p.key),
                   env, val, 1, size), sid, KeyLen(p.key))

\* the driver from the resolved key p on
SetResolved(p, sid, env, val, size) ==
    IF p.ret < 0
    THEN [ret |-> -ENOENT, key |-> p.key, env |-> env, size |-> size]
    ELSE Return(SetLoop(_configuration_handler_sid_iterator_next(
                            _configuration_iterator_init(p.handler, FALSE), p.key),
                        env, val, 1, size), sid, KeyLen(p.key))

\* value NoBuffer clears; size is the length the caller states for the buffer
_configuration_handler_set_internal(root, key, env, val, size) ==
    SetResolved(_configuration_prepare_sid(root, key), key.sid, env, val, size)

RECURSIVE GetLoop(_, _, _, _, _, _)
GetLoop(it, env, buf, pos, size, overrun) ==
    IF it.node = NULL
    THEN [ret |-> 0, key |-> it.key, env |-> env, buf |-> buf, size |-> size,
          overrun |-> overrun]
    ELSE IF ~Node(it.node).ops
    THEN GetLoop(_configuration_handler_sid_iterator_next(it.iter, it.key),
                 env, buf, pos, size, overrun)
    ELSE LET h == configuration_get_handler_default(env, it.node, it.key, buf, pos, size)
             e == Invoked(h.env, "get", it.node, it.key, h.ret)
         IN IF h.ret # 0
            THEN [ret |-> h.ret, key |-> it.key, env |-> e, buf |-> h.buf, size |-> h.size,
                  overrun |-> overrun \/ h.overrun]
            ELSE GetLoop(_configuration_handler_sid_iterator_next(it.iter, it.key),
                         e, h.buf, pos + ((size - h.size) % SID_MODULUS), h.size,
                         overrun \/ h.overrun)

GetResolved(p, sid, env, buf, size) ==
    IF p.ret < 0
    THEN [ret |-> -ENOENT, key |-> p.key, env |-> env, buf |-> buf, size |-> size,
          overrun |-> FALSE]
    ELSE Return(GetLoop(_configuration_handler_sid_iterator_next(
                            _configuration_iterator_init(p.handler, FALSE), p.key),
                        env, buf, 1, size, FALSE), sid, KeyLen(p.key))

_configuration_handler_get_internal(root, key, env, buf, size) ==
    GetResolved(_configuration_prepare_sid(root, key), key.sid, env, buf, size)

RECURSIVE ImportLoop(_, _, _, _)
ImportLoop(it, env, sid, whole) ==
    IF it.node = NULL THEN [ret |-> 0, key |-> it.key, env |-> env]
    ELSE IF ~Node(it.node).ops
    THEN ImportLoop(_configuration_path_sid_iterator_next(it.iter, it.key, sid, whole),
                    env, sid, whole)
    ELSE LET h == configuration_import_handler_default(env, it.node, it.key, whole)
         IN ImportLoop(_configuration_path_sid_iterator_next(it.iter, it.key, sid, whole),
                       Invoked(h.env, "import", it.node, it.key, h.ret), sid, whole)

ImportResolved(p, sid, env, whole) ==
    IF p.ret < 0
    THEN [ret |-> -ENOENT, key |-> p.key, env |-> env]
    ELSE Return(ImportLoop(_configuration_path_sid_iterator_next(
                               _configuration_path_iterator_init(p.handler, TRUE, p.key.sid),
                               p.key, sid, whole),
                           env, sid, whole), sid, KeyLen(p.key))

_configuration_handler_import_internal(root, key, env, whole) ==
    ImportResolved(_configuration_prepare_sid(root, key), key.sid, env, whole)

RECURSIVE ExportLoop(_, _, _, _)
ExportLoop(it, env, sid, whole) ==
    IF it.node = NULL THEN [ret |-> 0, key |-> it.key, env |-> env]
    ELSE IF ~Node(it.node).ops
    THEN ExportLoop(_configuration_path_sid_iterator_next(it.iter, it.key, sid, whole),
                    env, sid, whole)
    ELSE IF Node(it.node).verify /\ ops_dat_verify(env, it.node) # 0
    THEN ExportLoop(_configuration_path_sid_iterator_next(it.iter, it.key, sid, whole),
                    Invoked(env, "verify", it.node, it.key, ops_dat_verify(env, it.node)),
                    sid, whole)
    ELSE LET v == IF Node(it.node).verify
                  THEN Invoked(env, "verify", it.node, it.key, 0) ELSE env
             h == configuration_export_handler_default(v, it.node, it.key, whole)
             e == Invoked(h.env, "export", it.node, it.key, h.ret)
         IN IF h.ret # 0
            THEN [ret |-> h.ret, key |-> it.key, env |-> e]
            ELSE ExportLoop(_configuration_path_sid_iterator_next(it.iter, it.key, sid, whole),
                            e, sid, whole)

ExportResolved(p, sid, env, whole) ==
    IF p.ret < 0
    THEN [ret |-> -ENOENT, key |-> p.key, env |-> env]
    ELSE Return(ExportLoop(_configuration_path_sid_iterator_next(
                               _configuration_path_iterator_init(p.handler, TRUE, p.key.sid),
                               p.key, sid, whole),
                           env, sid, whole), sid, KeyLen(p.key))

_configuration_handler_export_internal(root, key, env, whole) ==
    ExportResolved(_configuration_prepare_sid(root, key), key.sid, env, whole)

\* a variant that stops at the first callback that fails and returns its error
RECURSIVE DeleteLoopStop(_, _, _, _)
DeleteLoopStop(it, env, sid, whole) ==
    IF it.node = NULL THEN [ret |-> 0, key |-> it.key, env |-> env]
    ELSE IF ~Node(it.node).ops
    THEN DeleteLoopStop(_configuration_path_sid_iterator_next(it.iter, it.key, sid, whole),
                        env, sid, whole)
    ELSE LET h == configuration_delete_handler_default(env, it.node, it.key, whole)
             e == Invoked(h.env, "delete", it.node, it.key, h.ret)
         IN IF h.ret # 0
            THEN [ret |-> h.ret, key |-> it.key, env |-> e]
            ELSE DeleteLoopStop(_configuration_path_sid_iterator_next(it.iter, it.key,
                                                                      sid, whole),
                                e, sid, whole)

RECURSIVE DeleteLoop(_, _, _, _)
DeleteLoop(it, env, sid, whole) ==
    IF it.node = NULL THEN [ret |-> 0, key |-> it.key, env |-> env]
    ELSE IF ~Node(it.node).ops
    THEN DeleteLoop(_configuration_path_sid_iterator_next(it.iter, it.key, sid, whole),
                    env, sid, whole)
    ELSE LET h == configuration_delete_handler_default(env, it.node, it.key, whole)
         IN DeleteLoop(_configuration_path_sid_iterator_next(it.iter, it.key, sid, whole),
                       Invoked(h.env, "delete", it.node, it.key, h.ret), sid, whole)

DeleteResolved(p, sid, env, whole) ==
    IF p.ret < 0
    THEN [ret |-> -ENOENT, key |-> p.key, env |-> env]
    ELSE Return(DeleteLoop(_configuration_path_sid_iterator_next(
                               _configuration_path_iterator_init(p.handler, TRUE, p.key.sid),
                               p.key, sid, whole),
                           env, sid, whole), sid, KeyLen(p.key))

_configuration_handler_delete_internal(root, key, env, whole) ==
    DeleteResolved(_configuration_prepare_sid(root, key), key.sid, env, whole)

RECURSIVE ApplyLoop(_, _)
ApplyLoop(it, env) ==
    IF it.node = NULL THEN [ret |-> 0, key |-> it.key, env |-> env]
    ELSE IF ~Node(it.node).verify
    THEN ApplyLoop(_configuration_handler_sid_iterator_next(it.iter, it.key), env)
    ELSE ApplyLoop(_configuration_handler_sid_iterator_next(it.iter, it.key),
                   Invoked(env, "apply", it.node, it.key, 0))

ApplyResolved(p, sid, env) ==
    IF p.ret < 0
    THEN [ret |-> -ENOENT, key |-> p.key, env |-> env]
    ELSE Return(ApplyLoop(_configuration_handler_sid_iterator_next(
                              _configuration_iterator_init(p.handler, FALSE), p.key),
                          env), sid, KeyLen(p.key))

_configuration_handler_apply_internal(root, key, env) ==
    ApplyResolved(_configuration_prepare_sid(root, key), key.sid, env)

\* the handlers whose mutex lock and unlock act on, in the order of the walk
RECURSIVE MutexLoop(_, _)
MutexLoop(it, visited) ==
    IF it.node = NULL THEN [ret |-> 0, key |-> it.key, visited |-> visited]
    ELSE IF ~Node(it.node).ops
    THEN MutexLoop(_configuration_handler_sid_iterator_next(it.iter, it.key), visited)
    ELSE MutexLoop(_configuration_handler_sid_iterator_next(it.iter, it.key),
                   Append(visited, it.node))

\* lock and unlock from the resolved key p on
MutexResolved(p, sid, max_depth) ==
    IF p.ret < 0
    THEN [ret |-> -ENOENT, key |-> p.key, visited |-> <<>>]
    ELSE Return(MutexLoop(_configuration_handler_sid_iterator_next(
                              _configuration_iterator_init(p.handler, max_depth), p.key),
                          <<>>), sid, KeyLen(p.key))

\* a variant that walks without full depth
LockShallow(root, key) ==
    MutexResolved(_configuration_prepare_sid(root, key), key.sid, FALSE)

\* a variant that takes the mutexes of the whole tree last handler first
LockBackwards(root, key) ==
    LET r == MutexResolved(_configuration_prepare_sid(root, key), key.sid, TRUE)
    IN IF key.sid = Node("root").sid_lower
       THEN [r EXCEPT !.visited = [i \in 1..Len(@) |-> @[Len(@) + 1 - i]]]
       ELSE r

_configuration_handler_lock(root, key) ==
    MutexResolved(_configuration_prepare_sid(root, key), key.sid, TRUE)

_configuration_handler_unlock(root, key) ==
    MutexResolved(_configuration_prepare_sid(root, key), key.sid, TRUE)

RECURSIVE VerifyLoop(_, _, _, _)
RECURSIVE VerifyReimported(_, _, _, _)

\* the second verify of a handler, i being what the import of it returned
VerifyReimported(it, i, try_reimport, whole) ==
    IF i.ret # 0
    THEN [ret |-> i.ret, key |-> i.key, env |-> i.env]
    ELSE LET e2 == Invoked(i.env, "verify", it.node, i.key, ops_dat_verify(i.env, it.node))
         IN IF ops_dat_verify(i.env, it.node) # 0
            THEN [ret |-> -ECANCELED, key |-> i.key, env |-> e2]
            ELSE VerifyLoop(_configuration_handler_sid_iterator_next(it.iter, i.key),
                            e2, try_reimport, whole)

VerifyLoop(it, env, try_reimport, whole) ==
    IF it.node = NULL THEN [ret |-> 0, key |-> it.key, env |-> env]
    ELSE IF ~Node(it.node).verify
    THEN VerifyLoop(_configuration_handler_sid_iterator_next(it.iter, it.key),
                    env, try_reimport, whole)
    ELSE LET e == Invoked(env, "verify", it.node, it.key, ops_dat_verify(env, it.node)) IN
         IF ops_dat_verify(env, it.node) = 0
         THEN VerifyLoop(_configuration_handler_sid_iterator_next(it.iter, it.key),
                         e, try_reimport, whole)
         ELSE IF ~try_reimport
         THEN [ret |-> -ECANCELED, key |-> it.key, env |-> e]
         ELSE VerifyReimported(it, _configuration_handler_import_internal("root", it.key,
                                                                          e, whole),
                               try_reimport, whole)

VerifyResolved(p, sid, env, try_reimport, whole) ==
    IF p.ret < 0
    THEN [ret |-> -ENOENT, key |-> p.key, env |-> env]
    ELSE Return(VerifyLoop(_configuration_handler_sid_iterator_next(
                               _configuration_iterator_init(p.handler, FALSE), p.key),
                           env, try_reimport, whole), sid, KeyLen(p.key))

\* a variant that re-imports whether asked to or not
VerifyReimporting(root, key, env, try_reimport, whole) ==
    VerifyResolved(_configuration_prepare_sid(root, key), key.sid, env, TRUE, whole)

_configuration_handler_verify_internal(root, key, env, try_reimport, whole) ==
    VerifyResolved(_configuration_prepare_sid(root, key), key.sid, env, try_reimport, whole)

RECURSIVE SetBackendLoop(_, _, _)
SetBackendLoop(it, env, backend) ==
    IF it.node = NULL THEN [ret |-> 0, key |-> it.key, env |-> env]
    ELSE IF ~Node(it.node).ops
    THEN SetBackendLoop(_configuration_handler_sid_iterator_next(it.iter, it.key),
                        env, backend)
    ELSE SetBackendLoop(_configuration_handler_sid_iterator_next(it.iter, it.key),
                        [env EXCEPT !.src_backend[it.node] = backend], backend)

SetBackendResolved(p, sid, env, backend) ==
    IF p.ret < 0
    THEN [ret |-> -ENOENT, key |-> p.key, env |-> env]
    ELSE Return(SetBackendLoop(_configuration_handler_sid_iterator_next(
                                   _configuration_iterator_init(p.handler, FALSE), p.key),
                               env, backend), sid, KeyLen(p.key))

_configuration_set_backend_internal(root, key, env, backend) ==
    SetBackendResolved(_configuration_prepare_sid(root, key), key.sid, env, backend)

(* ------------------------------------------------------------------ state *)
\* struct configuration _conf has static storage: zero-filled
InitMem == [i \in 1..NCells |-> 0]

\* the records of persist_conf, by the SID of their row in _kv
InitKv ==
    [s \in Sids |->
        CASE s \in {TEST_FOOD_BREAD_WHITE_SID, TEST_FOOD_CAKE_DONUT_SID,
                    TEST_DRINKS_COFFEE_SID, TEST_DRINKS_COCOA_SID} -> <<1>>
          [] s \in {TEST_FOOD_BREAD_WHOLE_GRAIN_SID, TEST_FOOD_CAKE_CHEESECAKE_SID,
                    TEST_DRINKS_TEA_SID} -> <<2>>
          [] s \in {TEST_ORDERS_LOWER_SID + TEST_ORDERS_INDEX_LOWER_SID
                        + (i * TEST_ORDERS_INDEX_STRIDE) :
                    i \in 0..(TEST_CONFIGURATION_MAX_ORDERS - 1)} -> <<1, 2>>
          [] OTHER -> <<>>]

Threads == {1, 2}

\* what a get buffer holds before the call
Unwritten == Indeterminate + 1

NoCall ==
    [op |-> "none", ret |-> 0, val |-> NoBuffer, size |-> 0, buf |-> <<>>, size_out |-> 0,
     try_reimport |-> FALSE, calls |-> <<>>, cbs |-> <<>>, oob |-> FALSE,
     overrun |-> FALSE, visited |-> <<>>, sid_in |-> 0, sid_out |-> 0,
     buf_len |-> 0, key_buf |-> NoText, enc |-> <<>>]

\* the record of a call
Call(op, ret, env) ==
    [NoCall EXCEPT !.op = op, !.ret = ret, !.calls = env.calls, !.cbs = env.cbs,
                   !.oob = env.oob, !.sid_in = K, !.sid_out = K']

NotExported ==
    [valid |-> FALSE, mem |-> InitMem, ret |-> 0, skipped |-> FALSE, overwritten |-> FALSE,
     oob |-> FALSE]

Env == MkEnv(mem, kv, src_backend)

\* the number of cells the key's value has: what the simple iterator's
\* handlers hold together
RECURSIVE SizeLoop(_, _)
SizeLoop(it, n) ==
    IF it.node = NULL THEN n
    ELSE IF ~Node(it.node).ops
    THEN SizeLoop(_configuration_handler_sid_iterator_next(it.iter, it.key), n)
    ELSE SizeLoop(_configuration_handler_sid_iterator_next(it.iter, it.key),
                  n + (IF AddressesWholeArray(it.node, it.key)
                       THEN Node(it.node).size * Node(it.node).array_size
                       ELSE Node(it.node).size))

SizeResolved(p) ==
    IF p.ret < 0 THEN 0
    ELSE SizeLoop(_configuration_handler_sid_iterator_next(
                      _configuration_iterator_init(p.handler, FALSE), p.key), 0)

AddressedSize(sid) == SizeResolved(_configuration_prepare_sid("root", MkKey(sid)))

\* the buffer sizes a caller passes: the addressed size, one less, one more
BufSizes(sid) ==
    {n \in {AddressedSize(sid) - 1, AddressedSize(sid), AddressedSize(sid) + 1} : n >= 1}

\* a value of n cells that starts at v and differs from cell to cell
Ramp(v, n) == [j \in 1..n |-> (v + j - 1) % (MaxVal + 1)]

\* the values a caller sets: every value of the addressed size, and one value
\* in a buffer that is too short and in one that is too long
SetValues(sid) ==
    {Ramp(v, AddressedSize(sid)) : v \in Vals} \cup {Ramp(1, n) : n \in BufSizes(sid)}

\* the handler a key resolves to, NULL when it resolves to none
ResolvesTo(sid) ==
    LET p == _configuration_prepare_sid("root", MkKey(sid)) IN
    IF p.ret < 0 THEN NULL ELSE p.handler

\* the first sub-node and its siblings
RECURSIVE Siblings(_)
Siblings(n) == IF n = NULL THEN {} ELSE {n} \cup Siblings(Node(n).next)

Children(n) == Siblings(Node(n).subnodes)

\* the nodes of the subtree rooted at n
RECURSIVE Subtree(_)
Subtree(n) == {n} \cup UNION {Subtree(c) : c \in Children(n)}

\* the handlers of the subtree a key resolves to
SubtreeHandlers(sid) ==
    IF ResolvesTo(sid) = NULL THEN {} ELSE Subtree(ResolvesTo(sid)) \cap Handlers

\* the keys a caller uses: every identifier but the root's own
Keys == Sids \ {Node("root").sid_lower}

\* the settings of export_as_a_whole that make a difference to the calls on a
\* key: none is set unless the key resolves to an array handler, and with
\* /orders exported as a whole its sub-node is not walked
Flags(sid) ==
    {f \in [Arrays -> BOOLEAN] :
        /\ f["items"] => ResolvesTo(sid) \in Arrays /\ ~f["orders"]
        /\ f["orders"] => ResolvesTo(sid) = "orders"}

\* the bindings of handlers to backends at the start: none bound, all bound,
\* and all bound but one leaf in the middle of the subtree of the key
Bindings(sid) ==
    {[h \in Handlers |-> NULL], [h \in Handlers |-> "ram"]}
    \cup (IF ResolvesTo(sid) = "food"
          THEN {[h \in Handlers |-> IF h = "whole_grain" THEN NULL ELSE "ram"]}
          ELSE {})

Init ==
    /\ tree = Tree
    /\ mem = InitMem
    /\ kv = InitKv
    /\ mutex = [h \in Handlers |-> FALSE]
    /\ K \in Keys
    /\ src_backend \in Bindings(K)
    /\ export_as_a_whole \in Flags(K)
    /\ last = NoCall
    /\ exported = NotExported
    /\ tkey = [t \in Threads |-> 0]
    /\ pc = [t \in Threads |-> "idle"]
    /\ todo = [t \in Threads |-> <<>>]

(* ---------------------------------------------------------------- actions *)
\* r is the one result of the driver's run
\* configuration_set(key, value, size), and configuration_set(key, NULL, NULL)
Set ==
    \E val \in {NoBuffer} \cup SetValues(K) :
        \E r \in {_configuration_handler_set_internal("root", MkKey(K), Env, val, Len(val))} :
           /\ mem' = r.env.mem
           /\ K' = r.key.sid
           /\ last' = [Call("set", r.ret, r.env) EXCEPT !.val = val, !.size = Len(val),
                                                         !.size_out = r.size]
           /\ UNCHANGED <<tree, kv, src_backend, mutex, export_as_a_whole>>

\* configuration_get(key, value, size)
Get ==
    \E size \in BufSizes(K) :
        \E r \in {_configuration_handler_get_internal("root", MkKey(K), Env,
                                                     [j \in 1..size |-> Unwritten], size)} :
           /\ K' = r.key.sid
           /\ last' = [Call("get", r.ret, r.env) EXCEPT !.size = size, !.buf = r.buf,
                                                         !.size_out = r.size,
                                                         !.overrun = r.overrun]
           /\ UNCHANGED <<tree, mem, kv, src_backend, mutex, export_as_a_whole>>

\* configuration_import(key)
Import ==
    \E r \in {_configuration_handler_import_internal("root", MkKey(K), Env, export_as_a_whole)} :
       /\ mem' = r.env.mem
       /\ K' = r.key.sid
       /\ last' = Call("import", r.ret, r.env)
       /\ UNCHANGED <<tree, kv, src_backend, mutex, export_as_a_whole>>

\* configuration_export(key)
Export ==
    \E r \in {_configuration_handler_export_internal("root", MkKey(K), Env, export_as_a_whole)} :
       /\ kv' = r.env.kv
       /\ K' = r.key.sid
       /\ last' = Call("export", r.ret, r.env)
       /\ UNCHANGED <<tree, mem, src_backend, mutex, export_as_a_whole>>

\* configuration_delete(key)
Delete ==
    \E r \in {_configuration_handler_delete_internal("root", MkKey(K), Env, export_as_a_whole)} :
       /\ kv' = r.env.kv
       /\ K' = r.key.sid
       /\ last' = Call("delete", r.ret, r.env)
       /\ UNCHANGED <<tree, mem, src_backend, mutex, export_as_a_whole>>

\* configuration_apply(key)
Apply ==
    \E r \in {_configuration_handler_apply_internal("root", MkKey(K), Env)} :
       /\ K' = r.key.sid
       /\ last' = Call("apply", r.ret, r.env)
       /\ UNCHANGED <<tree, mem, kv, src_backend, mutex, export_as_a_whole>>

\* configuration_verify(key, try_reimport)
Verify ==
    \E try_reimport \in BOOLEAN :
        \E r \in {_configuration_handler_verify_internal("root", MkKey(K), Env, try_reimport,
                                                        export_as_a_whole)} :
           /\ mem' = r.env.mem
           /\ kv' = r.env.kv
           /\ K' = r.key.sid
           /\ last' = [Call("verify", r.ret, r.env) EXCEPT !.try_reimport = try_reimport]
           /\ UNCHANGED <<tree, src_backend, mutex, export_as_a_whole>>

\* configuration_set_backend(key, src_backend, dst_backend)
SetBackend ==
    \E r \in {_configuration_set_backend_internal("root", MkKey(K), Env, "ram")} :
       /\ src_backend' = r.env.src_backend
       /\ K' = r.key.sid
       /\ last' = Call("set_backend", r.ret, r.env)
       /\ UNCHANGED <<tree, mem, kv, mutex, export_as_a_whole>>

\* the calls of one caller on one key object, in any order
Next ==
    \/ Set /\ UNCHANGED <<exported, tkey, pc, todo>>
    \/ Get /\ UNCHANGED <<exported, tkey, pc, todo>>
    \/ Import /\ UNCHANGED <<exported, tkey, pc, todo>>
    \/ Export /\ UNCHANGED <<exported, tkey, pc, todo>>
    \/ Delete /\ UNCHANGED <<exported, tkey, pc, todo>>
    \/ Apply /\ UNCHANGED <<exported, tkey, pc, todo>>
    \/ Verify /\ UNCHANGED <<exported, tkey, pc, todo>>
    \/ SetBackend /\ UNCHANGED <<exported, tkey, pc, todo>>

Spec == Init /\ [][Next]_vars

(* ------------------------------------------- export, overwrite and import *)
\* the export is remembered: memory as it was, what the call returned and
\* whether a handler was passed over because its value did not verify
Exported ==
    /\ Export
    /\ exported' = [valid |-> TRUE, mem |-> mem, ret |-> last'.ret,
                    skipped |-> \E i \in 1..Len(last'.cbs) :
                                    last'.cbs[i].op = "verify" /\ last'.cbs[i].ret # 0,
                    overwritten |-> FALSE,
                    oob |-> last'.oob]

Overwritten ==
    /\ Set
    /\ exported' = [exported EXCEPT !.overwritten = @ \/ (exported.valid /\ mem' # exported.mem),
                                    !.oob = @ \/ last'.oob]

Imported == Import /\ UNCHANGED exported

NextRoundTrip ==
    \/ Exported /\ UNCHANGED <<tkey, pc, todo>>
    \/ Overwritten /\ UNCHANGED <<tkey, pc, todo>>
    \/ Imported /\ UNCHANGED <<tkey, pc, todo>>

SpecRoundTrip == Init /\ [][NextRoundTrip]_vars

(* ------------------------------------------------- the FlashDB backend *)
\* every handler is bound to the FlashDB backend, whose database is empty
InitFlash ==
    /\ tree = Tree
    /\ mem = InitMem
    /\ kv = [s \in Sids |-> <<>>]
    /\ mutex = [h \in Handlers |-> FALSE]
    /\ K \in Keys
    /\ src_backend = [h \in Handlers |-> "fdb"]
    /\ export_as_a_whole \in Flags(K)
    /\ last = NoCall
    /\ exported = NotExported
    /\ tkey = [t \in Threads |-> 0]
    /\ pc = [t \in Threads |-> "idle"]
    /\ todo = [t \in Threads |-> <<>>]

\* what a store to the flash comes back with
FlashResults == {0, -ENODATA, -EIO}

\* configuration_export(key) while the flash answers fdb to every store
ExportFlash ==
    \E fdb \in FlashResults :
        \E r \in {_configuration_handler_export_internal("root", MkKey(K),
                                                          [Env EXCEPT !.fdb = fdb],
                                                          export_as_a_whole)} :
           /\ kv' = r.env.kv
           /\ K' = r.key.sid
           /\ last' = Call("export", r.ret, r.env)
           /\ UNCHANGED <<tree, mem, src_backend, mutex, export_as_a_whole>>

NextFlash ==
    \/ Set /\ UNCHANGED <<exported, tkey, pc, todo>>
    \/ ExportFlash /\ UNCHANGED <<exported, tkey, pc, todo>>
    \/ Import /\ UNCHANGED <<exported, tkey, pc, todo>>

SpecFlash == InitFlash /\ [][NextFlash]_vars

(* ----------------------------------------------------- set on filled memory *)
\* _conf after earlier calls of configuration_set have given every value and
\* every item a value that is not 0 and differs from its neighbour's
FilledMem == [i \in 1..NCells |-> 1 + (i % MaxVal)]

\* every handler is bound to the RAM backend; memory is filled or still zero
InitSet ==
    /\ tree = Tree
    /\ mem \in {InitMem, FilledMem}
    /\ kv = InitKv
    /\ mutex = [h \in Handlers |-> FALSE]
    /\ K \in Keys
    /\ src_backend = [h \in Handlers |-> "ram"]
    /\ export_as_a_whole \in Flags(K)
    /\ last = NoCall
    /\ exported = NotExported
    /\ tkey = [t \in Threads |-> 0]
    /\ pc = [t \in Threads |-> "idle"]
    /\ todo = [t \in Threads |-> <<>>]

NextSet ==
    \/ Set /\ UNCHANGED <<exported, tkey, pc, todo>>
    \/ Get /\ UNCHANGED <<exported, tkey, pc, todo>>
    \/ Export /\ UNCHANGED <<exported, tkey, pc, todo>>

SpecSet == InitSet /\ [][NextSet]_vars

(* ------------------------------------------------- keys with a text buffer *)
\* the lengths of the text buffer of the caller's key: none, one that holds
\* "/food", one that holds "/drinks" and any one segment but the two longest,
\* and one that holds every path
BufLens == {0, 6, 8, 32}

\* A write past the end of the key's buffer is undefined: the call may then
\* return anything.  Otherwise it returns what the driver computed.
Outcomes(r) == IF r.key.buf.over THEN {0, -ENOENT, -ENOBUFS, -EINVAL} ELSE {r.ret}

\* configuration_get(key, value, size), the key with a text buffer
GetText ==
    \E len \in BufLens, size \in BufSizes(K) :
        \E r \in {_configuration_handler_get_internal("root", MkTextKey(K, len), Env,
                                                     [j \in 1..size |-> Unwritten], size)} :
            \E ret \in Outcomes(r) :
               /\ K' = r.key.sid
               /\ last' = [Call("get", ret, r.env) EXCEPT !.size = size, !.buf = r.buf,
                                                          !.size_out = r.size,
                                                          !.overrun = r.overrun,
                                                          !.buf_len = len,
                                                          !.key_buf = r.key.buf]
               /\ UNCHANGED <<tree, mem, kv, src_backend, mutex, export_as_a_whole>>

\* configuration_export(key), the key with a text buffer
ExportText ==
    \E len \in BufLens :
        \E r \in {_configuration_handler_export_internal("root", MkTextKey(K, len), Env,
                                                        export_as_a_whole)} :
            \E ret \in Outcomes(r) :
               /\ kv' = r.env.kv
               /\ K' = r.key.sid
               /\ last' = [Call("export", ret, r.env) EXCEPT !.buf_len = len,
                                                             !.key_buf = r.key.buf]
               /\ UNCHANGED <<tree, mem, src_backend, mutex, export_as_a_whole>>

NextText ==
    \/ GetText /\ UNCHANGED <<exported, tkey, pc, todo>>
    \/ ExportText /\ UNCHANGED <<exported, tkey, pc, todo>>

SpecText == InitSet /\ [][NextText]_vars

(* ----------------------------------------------------------- registration *)
\* the nodes that are registered in this part, in any order and below any
\* node that is registered
RegNodes == {"food", "bread", "white", "drinks", "orders"}

\* a node before it is registered: no sub-node, no sibling, level 0
Unregistered(n) == [Tree[n] EXCEPT !.subnodes = NULL, !.next = NULL, !.level = 0]

\* the nodes linked below n, n included
RECURSIVE Linked(_)
Linked(n) == {n} \cup UNION {Linked(c) : c \in Children(n)}

\* the end of a list of siblings: the node whose next is NULL
RECURSIVE LastSibling(_)
LastSibling(n) == IF Node(n).next = NULL THEN n ELSE LastSibling(Node(n).next)

InitRegister ==
    /\ tree = [n \in Nodes |-> Unregistered(n)]
    /\ mem = InitMem
    /\ kv = InitKv
    /\ src_backend = [h \in Handlers |-> NULL]
    /\ mutex = [h \in Handlers |-> FALSE]
    /\ export_as_a_whole = [a \in Arrays |-> FALSE]
    /\ K = 0
    /\ last = NoCall
    /\ exported = NotExported
    /\ tkey = [t \in Threads |-> 0]
    /\ pc = [t \in Threads |-> "idle"]
    /\ todo = [t \in Threads |-> <<>>]

\* a variant that links the node in front of the sub-nodes of its parent
RegisterFirst(parent, node) ==
    tree' = [tree EXCEPT ![node].level = Node(parent).level + 1,
                         ![node].next = Node(parent).subnodes,
                         ![parent].subnodes = node]

\* configuration_register(parent, node): *end = node at the end of the
\* parent's list of sub-nodes
configuration_register(parent, node) ==
    IF Node(parent).subnodes = NULL
    THEN tree' = [tree EXCEPT ![node].level = Node(parent).level + 1,
                              ![parent].subnodes = node]
    ELSE tree' = [tree EXCEPT ![node].level = Node(parent).level + 1,
                              ![LastSibling(Node(parent).subnodes)].next = node]

\* a node that is not registered is registered below one that is
NextRegister ==
    \E parent \in Linked("root"), node \in RegNodes \ Linked("root") :
        /\ configuration_register(parent, node)
        /\ last' = [NoCall EXCEPT !.op = "register"]
        /\ UNCHANGED <<mem, kv, src_backend, mutex, export_as_a_whole, K, exported,
                       tkey, pc, todo>>

SpecRegister == InitRegister /\ [][NextRegister]_vars

(* ---------------------------------------------------------------- threads *)
\* a variant that does not wait
mutex_ignored(h) == TRUE

\* mutex_lock returns once the mutex is free
mutex_free(h) == ~mutex[h]

InitLock ==
    /\ tree = Tree
    /\ mem = InitMem
    /\ kv = InitKv
    /\ src_backend = [h \in Handlers |-> NULL]
    /\ mutex = [h \in Handlers |-> FALSE]
    /\ export_as_a_whole = [a \in Arrays |-> FALSE]
    /\ K = 0
    /\ last = NoCall
    /\ exported = NotExported
    /\ tkey \in [Threads -> Sids]
    /\ pc = [t \in Threads |-> "idle"]
    /\ todo = [t \in Threads |-> <<>>]

DataUnchanged == UNCHANGED <<tree, mem, kv, src_backend, export_as_a_whole, K, exported>>

\* the record of a lock or unlock call that has returned
Returned(op, t) == [NoCall EXCEPT !.op = op, !.sid_in = tkey[t], !.sid_out = tkey'[t]]

\* configuration_lock(key) up to its first mutex_lock
LockCall(t) ==
    /\ pc[t] = "idle"
    /\ \E r \in {_configuration_handler_lock("root", MkKey(tkey[t]))} :
        /\ r.ret = 0
        /\ tkey' = [tkey EXCEPT ![t] = r.key.sid]
        /\ todo' = [todo EXCEPT ![t] = r.visited]
        /\ pc' = [pc EXCEPT ![t] = IF r.visited = <<>> THEN "locked" ELSE "locking"]
    /\ UNCHANGED <<mutex, last>>
    /\ DataUnchanged

\* one mutex_lock of the loop; after the last one the call returns
LockStep(t) ==
    /\ pc[t] = "locking"
    /\ mutex_free(Head(todo[t]))
    /\ mutex' = [mutex EXCEPT ![Head(todo[t])] = TRUE]
    /\ todo' = [todo EXCEPT ![t] = Tail(@)]
    /\ pc' = [pc EXCEPT ![t] = IF Tail(todo[t]) = <<>> THEN "locked" ELSE "locking"]
    /\ UNCHANGED tkey
    /\ last' = IF Tail(todo[t]) = <<>> THEN Returned("lock", t) ELSE last
    /\ DataUnchanged

\* configuration_unlock(key) up to its first mutex_unlock
UnlockCall(t) ==
    /\ pc[t] = "locked"
    /\ \E r \in {_configuration_handler_unlock("root", MkKey(tkey[t]))} :
        /\ tkey' = [tkey EXCEPT ![t] = r.key.sid]
        /\ todo' = [todo EXCEPT ![t] = r.visited]
        /\ pc' = [pc EXCEPT ![t] = IF r.visited = <<>> THEN "idle" ELSE "unlocking"]
    /\ UNCHANGED <<mutex, last>>
    /\ DataUnchanged

\* one mutex_unlock of the loop
UnlockStep(t) ==
    /\ pc[t] = "unlocking"
    /\ mutex' = [mutex EXCEPT ![Head(todo[t])] = FALSE]
    /\ todo' = [todo EXCEPT ![t] = Tail(@)]
    /\ pc' = [pc EXCEPT ![t] = IF Tail(todo[t]) = <<>> THEN "idle" ELSE "unlocking"]
    /\ UNCHANGED tkey
    /\ last' = IF Tail(todo[t]) = <<>> THEN Returned("unlock", t) ELSE last
    /\ DataUnchanged

NextLock ==
    \E t \in Threads :
        \/ LockCall(t)
        \/ LockStep(t)
        \/ UnlockCall(t)
        \/ UnlockStep(t)

SpecLock == InitLock /\ [][NextLock]_vars

\* a step by which a thread that holds its subtree enters configuration_unlock
Unlocks(t) ==
    /\ pc[t] = "locked"
    /\ pc' \in {[pc EXCEPT ![t] = s] : s \in {"idle", "unlocking"}}

\* the threads under a fair scheduler: a thread that waits in mutex_lock is
\* queued at the mutex and gets it when it is handed on, a thread that holds
\* its subtree goes on to unlock it, and a started unlock goes on
Fairness ==
    \A t \in Threads :
        /\ SF_vars(LockStep(t))
        /\ WF_pc(Unlocks(t))
        /\ WF_vars(UnlockStep(t))

SpecLockFair == InitLock /\ [][NextLock]_vars /\ Fairness

\* ---------------------------------------------------------------------------
\* Properties
\* ---------------------------------------------------------------------------

\* the callbacks and backend calls a driver call made
CbOf(op, h) == \E i \in 1..Len(last.cbs) : last.cbs[i].op = op /\ last.cbs[i].handler = h
BackendCall(op, sid) ==
    \E i \in 1..Len(last.calls) : last.calls[i].op = op /\ last.calls[i].sid = sid

\* a handler with a verify callback whose value in memory is rejected
Invalid(h) == Node(h).verify /\ ~_verify_price(mem[Node(h).data])

\* the identifier of item i of an array node
ItemSid(a, i) == Node(a).sid_lower + 1 + i * Node(a).sid_stride

\* C1 (as the specification states it): for a key that resolves to a handler
\* with the default set and get handlers, a set of a value V of exactly the
\* addressed size that returns 0, followed by a get with a buffer of the same
\* size, returns 0 and yields exactly V; for a whole array that is all
\* array_size items. The get of a whole array copies one item only.
C1_SetGetRoundTrip ==
    [][(/\ last.op = "set" /\ last.ret = 0 /\ last.val # NoBuffer
        /\ ResolvesTo(K) \in Handlers
        /\ last.size = AddressedSize(K)
        /\ last'.op = "get" /\ last'.size = last.size)
       => (last'.ret = 0 /\ last'.buf = last.val)]_vars

\* C2: for an array handler with lower bound L, stride s, item size z and n
\* items, the key L+1+i*s with 0 <= i < n resolves to that handler with
\* key.offset = i*z (past the offset of the enclosing item) and
\* key.sid_normal = L+1, and no driver answers -ENOENT; the key L+1+n*s is
\* answered -ENOENT when no other node below the root has it in its range,
\* and so is an identifier inside the array's range whose index is n or more.
C2_ItemOwned(a, sid) == \E m \in Nodes \ {"root", a} : _sid_in_range(m, sid)

C3_ExportImportRoundTrip ==
    (/\ last.op = "import" /\ ~last.oob
     /\ exported.valid /\ exported.ret = 0 /\ ~exported.skipped /\ ~exported.oob)
    => mem = exported.mem

\* /orders, exported per item, is back after having been overwritten
C3_Witness ==
    /\ last.op = "import" /\ last.ret = 0
    /\ ~last.oob
    /\ exported.valid /\ exported.ret = 0 /\ ~exported.skipped /\ ~exported.oob
    /\ exported.overwritten
    /\ ResolvesTo(K) = "orders" /\ K = Node("orders").sid_lower
    /\ ~export_as_a_whole["orders"]
    /\ mem = exported.mem /\ mem # InitMem

\* C3 as the specification states it: for a key that resolves to a handler
\* bound to the backend, export, overwrite, import restores the memory of the
\* time of the export, whatever the value
C3_Original ==
    (/\ last.op = "import" /\ exported.valid
     /\ ResolvesTo(K) \in Handlers /\ src_backend[ResolvesTo(K)] # NULL)
    => mem = exported.mem

\* C4: an export never calls the export callback of a handler whose verify
\* fails and stores nothing under its identifier; when the export returns 0,
\* every other handler of the subtree that is not below an array exported as
\* a whole has its export callback called in the same call.
C4_BelowWhole(h) ==
    \E a \in Arrays : export_as_a_whole[a] /\ h \in Subtree(a) \ {a}

C4_ExportSkipsInvalid ==
    (last.op = "export" /\ ResolvesTo(K) # NULL) =>
        \A h \in SubtreeHandlers(K) :
            /\ Invalid(h) => (~CbOf("export", h) /\ ~BackendCall("store", Node(h).sid_lower))
            /\ (~Invalid(h) /\ last.ret = 0 /\ ~C4_BelowWhole(h)) => CbOf("export", h)

\* an export of a subtree with a rejected and an accepted value: the accepted
\* one is stored, the rejected one is not
C4_Witness ==
    /\ last.op = "export" /\ last.ret = 0
    /\ \E h1, h2 \in SubtreeHandlers(K) :
          /\ Invalid(h1) /\ ~CbOf("export", h1)
          /\ Node(h2).verify /\ ~Invalid(h2)
          /\ CbOf("export", h2) /\ BackendCall("store", Node(h2).sid_lower)

\* C4 as the specification states it: every other handler is exported in the
\* same call, whatever the callbacks before it returned
C4_Original ==
    (last.op = "export" /\ ResolvesTo(K) # NULL) =>
        \A h \in SubtreeHandlers(K) :
            /\ Invalid(h) => (~CbOf("export", h) /\ ~BackendCall("store", Node(h).sid_lower))
            /\ (~Invalid(h) /\ ~C4_BelowWhole(h)) => CbOf("export", h)

\* C5: verify(key, true) of a handler whose value in memory was rejected calls
\* the import callback of that handler, which loads the record of the key
\* when the handler is bound to a backend, and returns 0 when the backend
\* holds a valid value for the key and -ECANCELED otherwise.
C5_PersistedValid(sid) ==
    /\ src_backend[ResolvesTo(sid)] # NULL
    /\ kv[sid] # <<>> /\ _verify_price(kv[sid][1])

C5_Rejected ==
    /\ last.op = "verify" /\ last.try_reimport
    /\ ResolvesTo(K) \in Handlers /\ Node(ResolvesTo(K)).verify
    /\ last.cbs # <<>> /\ last.cbs[1].op = "verify" /\ last.cbs[1].ret # 0

C5_VerifyReimports ==
    C5_Rejected =>
        /\ CbOf("import", ResolvesTo(K))
        /\ src_backend[ResolvesTo(K)] # NULL => BackendCall("load", K)
        /\ last.ret = (IF C5_PersistedValid(K) THEN 0 ELSE -ECANCELED)
        /\ last.ret = 0 <=> ~Invalid(ResolvesTo(K))

\* a rejected value was replaced by the persisted one and verify returned 0
C5_Witness ==
    /\ C5_Rejected /\ BackendCall("load", K)
    /\ last.ret = 0 /\ mem[Node(ResolvesTo(K)).data] = kv[K][1]

\* C6: verify(key, false) on a subtree that holds a handler whose verify fails
\* returns -ECANCELED, imports nothing and leaves memory and the backend's
\* records as they were.
C6_VerifyWithoutReimport ==
    [][(/\ last'.op = "verify" /\ ~last'.try_reimport
        /\ \E h \in SubtreeHandlers(K) : Invalid(h))
       => (/\ last'.ret = -ECANCELED
           /\ mem' = mem /\ kv' = kv
           /\ \A i \in 1..Len(last'.cbs) : last'.cbs[i].op = "verify"
           /\ last'.calls = <<>>)]_vars

\* a verify without re-import of a subtree of several handlers was cancelled
C6_Witness ==
    /\ last.op = "verify" /\ ~last.try_reimport /\ last.ret = -ECANCELED
    /\ ResolvesTo(K) \notin Handlers
    /\ \E h \in SubtreeHandlers(K) : Invalid(h)

\* C7: when the subtrees of the keys of two threads share a handler, at most
\* one of the threads is between its lock and its unlock.
C7_MutualExclusion ==
    \A t1, t2 \in Threads :
        (/\ t1 # t2
         /\ SubtreeHandlers(tkey[t1]) \cap SubtreeHandlers(tkey[t2]) # {})
        => ~(pc[t1] = "locked" /\ pc[t2] = "locked")

\* one thread holds /orders while the other waits for a mutex of it
C7_Witness ==
    /\ pc[1] = "locked" /\ pc[2] = "locking"
    /\ SubtreeHandlers(tkey[1]) \cap SubtreeHandlers(tkey[2]) # {}
    /\ mutex[Head(todo[2])]

\* C8: lock(K) acquires the mutexes of exactly the handlers of the subtree the
\* key resolves to and unlock(K) releases exactly those: a mutex is locked
\* precisely when a thread holds it, and once every thread has unlocked,
\* every mutex is unlocked.
C8_Range(q) == {q[i] : i \in 1..Len(q)}

C8_HeldBy(t) ==
    CASE pc[t] = "idle" -> {}
      [] pc[t] = "locking" -> SubtreeHandlers(tkey[t]) \ C8_Range(todo[t])
      [] pc[t] = "locked" -> SubtreeHandlers(tkey[t])
      [] pc[t] = "unlocking" -> C8_Range(todo[t])

C8_LockExactlySubtree ==
    /\ \A h \in Handlers : mutex[h] <=> \E t \in Threads : h \in C8_HeldBy(t)
    /\ \A t \in Threads :
          pc[t] \in {"locking", "unlocking"} => C8_Range(todo[t]) \subseteq SubtreeHandlers(tkey[t])

\* /orders was locked, both of its mutexes, and unlocked again
C8_Witness ==
    /\ last.op = "unlock" /\ last.sid_in = Node("orders").sid_lower
    /\ \A t \in Threads : pc[t] = "idle"
    /\ \A h \in Handlers : ~mutex[h]

\* C9: a thread locking a key whose subtree is disjoint from the subtree of
\* the other thread's key never waits: the mutex it is about to take is free.
C9_DisjointNeverBlock ==
    \A t1, t2 \in Threads :
        (/\ t1 # t2
         /\ SubtreeHandlers(tkey[t1]) \cap SubtreeHandlers(tkey[t2]) = {}
         /\ pc[t1] = "locking")
        => mutex_free(Head(todo[t1]))

\* one thread holds its subtree while the other is taking a disjoint one
C9_Witness ==
    /\ pc[1] = "locked" /\ pc[2] = "locking"
    /\ SubtreeHandlers(tkey[1]) # {} /\ SubtreeHandlers(tkey[2]) # {}
    /\ SubtreeHandlers(tkey[1]) \cap SubtreeHandlers(tkey[2]) = {}
    /\ todo[2] # <<>> /\ ~mutex[Head(todo[2])]

\* C10: on every return path of every driver (set, get, import, export,
\* delete, apply, verify, lock, unlock, set_backend), key.sid on return
\* equals key.sid at entry.
C10_SidRestored ==
    /\ last.op # "none" => last.sid_out = last.sid_in
    /\ _configuration_handler_lock("root", MkKey(K)).key.sid = K
    /\ _configuration_handler_unlock("root", MkKey(K)).key.sid = K

\* a verify with re-import walked handlers with identifiers of their own and
\* returned the key with the caller's identifier
C10_Witness ==
    /\ last.op = "verify" /\ last.try_reimport
    /\ \E i \in 1..Len(last.cbs) : last.cbs[i].op = "import" /\ last.cbs[i].sid # last.sid_in
    /\ last.sid_out = last.sid_in /\ K = last.sid_in

\* C11: a call of any driver with a key that resolves to no handler returns
\* -ENOENT, invokes no handler callback and no backend operation, and leaves
\* memory, the backend's records, the bindings of handlers to backends and
\* the mutexes as they were; lock and unlock return -ENOENT for such a key and
\* act on no mutex.
C11_UnresolvedKey ==
    [][ResolvesTo(K) = NULL =>
         /\ last'.ret = -ENOENT
         /\ last'.cbs = <<>> /\ last'.calls = <<>>
         /\ mem' = mem /\ kv' = kv /\ src_backend' = src_backend /\ mutex' = mutex
         /\ _configuration_handler_lock("root", MkKey(K)).ret = -ENOENT
         /\ _configuration_handler_lock("root", MkKey(K)).visited = <<>>
         /\ _configuration_handler_unlock("root", MkKey(K)).ret = -ENOENT
         /\ _configuration_handler_unlock("root", MkKey(K)).visited = <<>>]_vars

\* a set with a value, on an identifier inside the range of /food that no
\* handler owns, was answered -ENOENT
C11_Witness ==
    /\ ResolvesTo(K) = NULL /\ _sid_in_range("food", K)
    /\ last.op = "set" /\ last.val # NoBuffer /\ last.ret = -ENOENT
    /\ mem = InitMem

\* C12: in a call of set, get or export, a callback of the operation that
\* returns non-zero is the last callback of the call, and the call returns
\* that value; a call that returns 0 had every callback return 0. What the
\* callbacks before the failing one did is kept: after a set, the value of
\* each of them holds its part of the caller's buffer, and after an export
\* the record of each of them holds the value in memory.
C12_Consumed(cbs, i) ==
    LET RECURSIVE Sum(_)
        Sum(j) == IF j = 0 THEN 0 ELSE Node(cbs[j].handler).size + Sum(j - 1)
    IN Sum(i - 1)

C12_Cells(m, cb) ==
    ReadCells(m, Node(cb.handler).data + cb.offset, Node(cb.handler).size)

C13_ImportStopsAtFailure ==
    last.op = "import" =>
        \A i \in 1..Len(last.cbs) :
            (last.cbs[i].op = "import" /\ last.cbs[i].ret # 0) =>
                (i = Len(last.cbs) /\ last.ret = last.cbs[i].ret)

\* C14 (as the specification states it): when the backend's store returns a
\* negative code during the export of a scalar handler with the default
\* export handler, the export returns that code. The default export handler
\* returns 0 whatever the store returned.
C14_StoreErrorReturned ==
    (/\ last.op = "export"
     /\ ResolvesTo(K) \in Handlers \ Arrays)
    => \A i \in 1..Len(last.calls) :
           (last.calls[i].op = "store" /\ last.calls[i].ret < 0) =>
               last.ret = last.calls[i].ret

\* C15: a delete or an apply with a key that resolves returns 0 and calls the
\* delete (apply) callback of every handler its walk visits that has one,
\* whatever the callbacks before returned: for delete the handlers of the
\* subtree that are not below an array handled as a whole, for apply the
\* handlers of the subtree with data operations.
C15_Visited(op) ==
    IF op = "delete"
    THEN {h \in SubtreeHandlers(K) : ~C4_BelowWhole(h)}
    ELSE {h \in SubtreeHandlers(K) : Node(h).verify}

C16_SubtreeRebound ==
    [][(last'.op = "set_backend" /\ last'.ret = 0) =>
         \A h \in Handlers :
             src_backend'[h] = IF h \in SubtreeHandlers(K) THEN "ram" ELSE src_backend[h]
    ]_vars

\* C17: an export that returns 0, on the lower-bound key L of an array
\* handler that is bound to a backend and has export_as_a_whole = 0, stores
\* exactly one record per item of the array, in increasing order of the
\* index i, under the identifier L+1+i*stride and holding the item's own
\* slice of size cells at data + offset + i*size, and stores nothing under L.
\* (The stores of the handlers below the array are not counted.)
C17_Resolved == _configuration_prepare_sid("root", MkKey(K))

C17_LowerBoundKey(a) ==
    /\ C17_Resolved.ret = 0 /\ C17_Resolved.handler = a
    /\ C17_Resolved.key.sid_normal = Node(a).sid_lower

C17_IsItemStore(c) ==
    /\ c.op = "store"
    /\ \E i \in 0..(Node(ResolvesTo(K)).array_size - 1) :
          c.sid = K + 1 + i * Node(ResolvesTo(K)).sid_stride

C17_ItemRecord(a, i) ==
    [op |-> "store", sid |-> K + 1 + i * Node(a).sid_stride,
     data |-> ReadCells(mem, Node(a).data + C17_Resolved.key.offset + i * Node(a).size,
                        Node(a).size),
     ret |-> 0]

C17_PerItem(a) ==
    /\ SelectSeq(last.calls, C17_IsItemStore)
          = [j \in 1..Node(a).array_size |-> C17_ItemRecord(a, j - 1)]
    /\ ~BackendCall("store", K)

C18_WholeRecord(a) ==
    [op |-> "store", sid |-> K,
     data |-> ReadCells(mem, Node(a).data + C17_Resolved.key.offset,
                        Node(a).size * Node(a).array_size),
     ret |-> 0]

C18_IsExport(c) == c.op = "export"

C18_ExportWhole ==
    \A a \in Arrays :
        (/\ last.op = "export"
         /\ C17_LowerBoundKey(a)
         /\ export_as_a_whole[a] /\ src_backend[a] # NULL)
        => /\ last.ret = 0
           /\ last.calls = <<C18_WholeRecord(a)>>
           /\ Len(C18_WholeRecord(a).data) = Node(a).size * Node(a).array_size
           /\ SelectSeq(last.cbs, C18_IsExport)
                = <<[op |-> "export", handler |-> a, sid |-> K,
                     sid_normal |-> Node(a).sid_lower,
                     offset |-> C17_Resolved.key.offset, ret |-> 0]>>

\* /orders with three different items was exported as one record
C18_Witness ==
    /\ last.op = "export" /\ last.ret = 0
    /\ K = Node("orders").sid_lower /\ export_as_a_whole["orders"]
    /\ src_backend["orders"] # NULL
    /\ Len(last.calls) = 1
    /\ Len(kv[K]) = Node("orders").size * Node("orders").array_size
    /\ kv[K][1] # kv[K][3] /\ kv[K][3] # kv[K][5]

\* C19: a get on a key that addresses an intermediate node, with a buffer of
\* as many cells as the leaf handlers below the node have together, returns
\* 0, leaves a size of 0, and fills the buffer with the values of those
\* handlers, concatenated in the pre-order of the tree (a node's sub-nodes
\* first to last).  In general the size a get leaves is the size it was given
\* less the size of each handler whose get callback it invoked.
RECURSIVE C19_PreOrder(_), C19_Forest(_)
C19_Forest(n) ==
    IF n = NULL THEN <<>> ELSE C19_PreOrder(n) \o C19_Forest(Node(n).next)

C19_PreOrder(n) ==
    IF Node(n).ops THEN <<n>> ELSE C19_Forest(Node(n).subnodes)

RECURSIVE C19_Values(_)
C19_Values(hs) ==
    IF hs = <<>> THEN <<>>
    ELSE ReadCells(mem, Node(Head(hs)).data, Node(Head(hs)).size) \o C19_Values(Tail(hs))

RECURSIVE C19_Sizes(_)
C19_Sizes(hs) ==
    IF hs = <<>> THEN 0 ELSE Node(Head(hs)).size + C19_Sizes(Tail(hs))

RECURSIVE C19_Consumed(_)
C19_Consumed(cbs) ==
    IF cbs = <<>> THEN 0
    ELSE (IF Head(cbs).op = "get" THEN Node(Head(cbs).handler).size ELSE 0)
         + C19_Consumed(Tail(cbs))

C19_Intermediate(n) == n # NULL /\ ~Node(n).ops

C19_GetCompound ==
    /\ (/\ last.op = "get"
        /\ C19_Intermediate(ResolvesTo(K))
        /\ last.size = C19_Sizes(C19_PreOrder(ResolvesTo(K))))
       => /\ last.ret = 0
          /\ last.size_out = 0
          /\ last.buf = C19_Values(C19_PreOrder(ResolvesTo(K)))
    /\ (last.op = "get" /\ ResolvesTo(K) # NULL)
       => last.size_out = SidWrap(last.size - C19_Consumed(last.cbs))

\* /food was read into a buffer of four cells after its values were set
C19_Witness ==
    /\ last.op = "get" /\ last.ret = 0 /\ last.size_out = 0
    /\ ResolvesTo(K) = "food"
    /\ Len(last.buf) = 4
    /\ last.buf[1] # last.buf[2] /\ last.buf[3] # last.buf[4]
    /\ last.buf[1] # 0

\* C20: a set on a key that addresses one scalar handler, or one item of an
\* array, changes no cell of memory outside that handler's value or that
\* item's slice, and no record of the backend; when it returns 0 the value
\* or slice holds the first size cells of the caller's buffer, or zeros when
\* the caller passed no buffer.  The slice of item i of /orders starts at
\* data + i * size, that of item j of the items of order i at the data of
\* /orders + i * (size of an order) + j * (size of an item).
C20_Order ==
    (K - (TEST_ORDERS_LOWER_SID + TEST_ORDERS_INDEX_LOWER_SID)) \div TEST_ORDERS_INDEX_STRIDE

C20_First ==
    IF ResolvesTo(K) \notin Arrays THEN Node(ResolvesTo(K)).data
    ELSE IF ResolvesTo(K) = "orders"
    THEN Node("orders").data + C20_Order * Node("orders").size
    ELSE Node("orders").data + C20_Order * Node("orders").size
         + ((K - (TEST_ORDERS_ITEMS_LOWER_SID + C20_Order * TEST_ORDERS_INDEX_STRIDE) - 1)
            \div TEST_ORDERS_ITEMS_INDEX_STRIDE) * Node("items").size

C20_OneValue ==
    /\ ResolvesTo(K) \in Handlers
    /\ ~AddressesWholeArray(ResolvesTo(K), C17_Resolved.key)

C20_Inside(c) ==
    c >= C20_First /\ c < C20_First + Node(ResolvesTo(K)).size

C20_SetIsLocal ==
    [][(last'.op = "set" /\ C20_OneValue) =>
         /\ \A c \in 1..NCells : ~C20_Inside(c) => mem'[c] = mem[c]
         /\ kv' = kv
         /\ last'.calls = <<>>
         /\ (last'.ret = 0 /\ last'.val # NoBuffer) =>
               ReadCells(mem', C20_First, Node(ResolvesTo(K)).size)
                 = SubSeq(last'.val, 1, Node(ResolvesTo(K)).size)
         /\ (last'.ret = 0 /\ last'.val = NoBuffer) =>
               ReadCells(mem', C20_First, Node(ResolvesTo(K)).size)
                 = Zeros(Node(ResolvesTo(K)).size)
         /\ last'.ret # 0 => mem' = mem]_vars

\* the second item of the items of order 1 was set to a value that is not 0,
\* the first item of that order holding another value that is not 0, after
\* the item was exported with a third value
C20_Witness ==
    /\ last.op = "set" /\ last.ret = 0 /\ last.val # NoBuffer
    /\ ResolvesTo(K) = "items" /\ C20_OneValue
    /\ C20_Order = 1 /\ C20_First = Node("orders").data + 3
    /\ mem[C20_First] = last.val[1] /\ mem[C20_First] # 0
    /\ mem[C20_First - 1] # 0 /\ mem[C20_First - 1] # mem[C20_First]
    /\ kv[K] # <<>> /\ kv[K] # <<mem[C20_First]>>

\* C21: a get through the default get handler with a buffer size smaller
\* than the size of the handler's value returns -ENOBUFS, leaves every cell of
\* the caller's buffer as it was, writes no cell past the buffer and leaves
\* the size as it was given.
C21_GetShortBuffer ==
    (/\ last.op = "get"
     /\ ResolvesTo(K) \in Handlers
     /\ last.size < Node(ResolvesTo(K)).size)
    => /\ last.ret = -ENOBUFS
       /\ last.buf = [j \in 1..last.size |-> Unwritten]
       /\ ~last.overrun
       /\ last.size_out = last.size

\* C22: a set with a value on a key that resolves to a handler needs
\* size * array_size cells when the key is the lower-bound key of an array and
\* size cells when it is the key of a scalar or of one item.  With a stated
\* size below that the call returns -ENOBUFS and leaves memory and the size
\* as they were; otherwise it returns 0, copies exactly the first cells of
\* the buffer, as many as needed, to data + key.offset, changes no other cell
\* and leaves the stated size less that number.
C22_Needed ==
    IF /\ Node(ResolvesTo(K)).handles_array
       /\ Node(ResolvesTo(K)).sid_lower = C17_Resolved.key.sid_normal
    THEN Node(ResolvesTo(K)).size * Node(ResolvesTo(K)).array_size
    ELSE Node(ResolvesTo(K)).size

C22_At == Node(ResolvesTo(K)).data + C17_Resolved.key.offset

C22_SetChecksSize ==
    [][(last'.op = "set" /\ last'.val # NoBuffer /\ ResolvesTo(K) \in Handlers) =>
         IF last'.size < C22_Needed
         THEN last'.ret = -ENOBUFS /\ mem' = mem /\ last'.size_out = last'.size
         ELSE /\ last'.ret = 0
              /\ mem' = WriteCells(mem, C22_At, SubSeq(last'.val, 1, C22_Needed))
              /\ last'.size_out = last'.size - C22_Needed]_vars

\* the items of order 1 were set as a whole from a buffer one cell longer
\* than the two items, in memory that held other values
C22_Witness ==
    /\ last.op = "set" /\ last.ret = 0
    /\ ResolvesTo(K) = "items" /\ C22_Needed = 2 /\ C17_Resolved.key.offset = 2
    /\ last.size = 3 /\ last.size_out = 1
    /\ ReadCells(mem, C22_At, 2) = SubSeq(last.val, 1, 2)
    /\ mem[C22_At - 1] # 0 /\ mem[C22_At + 2] # last.val[3]

\* a set on /orders with a buffer one cell short of the three orders was
\* refused, memory holding values that are not 0
C22_WitnessShort ==
    /\ last.op = "set" /\ last.ret = -ENOBUFS
    /\ ResolvesTo(K) = "orders" /\ C22_Needed = 6
    /\ last.size = 5 /\ last.size_out = 5
    /\ mem = FilledMem

\* C23: a set without a value (value and size NULL) on a key that resolves to
\* a handler returns 0 and fills with zeros exactly the cells the key
\* addresses: size cells at data + key.offset for a scalar or one item,
\* size * array_size cells for the lower-bound key of an array.  It changes
\* no other cell, makes no backend call and leaves every record of the
\* backend as it was.
C23_SetNullClears ==
    [][(last'.op = "set" /\ last'.val = NoBuffer /\ ResolvesTo(K) \in Handlers) =>
         /\ last'.ret = 0
         /\ mem' = WriteCells(mem, C22_At, Zeros(C22_Needed))
         /\ \A c \in 1..NCells :
              mem'[c] = IF c >= C22_At /\ c < C22_At + C22_Needed THEN 0 ELSE mem[c]
         /\ last'.calls = <<>>
         /\ kv' = kv]_vars

\* /orders was cleared as a whole in memory that held values that are not 0,
\* the values before and after the array staying, and so did the records
C23_Witness ==
    /\ last.op = "set" /\ last.val = NoBuffer /\ last.ret = 0
    /\ ResolvesTo(K) = "orders" /\ C22_Needed = 6
    /\ ReadCells(mem, C22_At, 6) = Zeros(6)
    /\ mem[C22_At - 1] # 0
    /\ kv[K + 1] # <<>> /\ kv[K + 1] # Zeros(2)

\* C24: an operation on a key with a text buffer that is too small to hold
\* the rendered path of the handler the key addresses, "/" and the segment of
\* every node on the way from the root and "/" and the index after the
\* segment of an array whose item is addressed, and the end of the string,
\* returns -ENOBUFS.
C24_Parent(n) == CHOOSE m \in Nodes : n \in Children(m)

\* the index of the item of array a the key addresses, -1 when it addresses
\* none
C24_Index(a) ==
    IF a = "orders"
    THEN IF K > Node(a).sid_lower THEN C20_Order ELSE -1
    ELSE IF K - C20_Order * TEST_ORDERS_INDEX_STRIDE > Node(a).sid_lower
    THEN (K - C20_Order * TEST_ORDERS_INDEX_STRIDE - Node(a).sid_lower - 1)
            \div TEST_ORDERS_ITEMS_INDEX_STRIDE
    ELSE -1

RECURSIVE C24_Path(_)
C24_Path(n) ==
    IF n = "root" THEN <<>>
    ELSE C24_Path(C24_Parent(n)) \o <<"/">> \o subtree(n)
         \o (IF IsArray(n) /\ C24_Index(n) >= 0
             THEN <<"/">> \o fmt_u32_dec(C24_Index(n)) ELSE <<>>)

C24_PathTooLong ==
    (/\ last.op \in {"get", "export"}
     /\ last.key_buf.used
     /\ ResolvesTo(K) # NULL
     /\ last.buf_len < Len(C24_Path(ResolvesTo(K))) + 1)
    => last.ret = -ENOBUFS

\* C25: a registration of a node below a parent links the node after all
\* the sub-nodes the parent had, in their order, and gives it the level of
\* the parent plus one; every node that was linked below the root is still
\* linked below it, at its level and with its sub-nodes in the order they
\* had; and the level of every registered node is its depth below the root.
RECURSIVE C25_Chain(_, _)
C25_Chain(t, n) == IF n = NULL THEN <<>> ELSE <<n>> \o C25_Chain(t, t[n].next)

C25_SubNodes(t, p) == C25_Chain(t, t[p].subnodes)

RECURSIVE C25_Below(_, _)
C25_Below(t, n) ==
    {n} \cup UNION {C25_Below(t, C25_SubNodes(t, n)[i]) : i \in 1..Len(C25_SubNodes(t, n))}

RECURSIVE C25_LevelsBelow(_, _, _)
C25_LevelsBelow(t, n, depth) ==
    /\ t[n].level = depth
    /\ \A i \in 1..Len(C25_SubNodes(t, n)) :
          C25_LevelsBelow(t, C25_SubNodes(t, n)[i], depth + 1)

C25_Registered(parent, node) ==
    /\ C25_Below(tree', "root") = C25_Below(tree, "root") \cup {node}
    /\ C25_SubNodes(tree', parent) = Append(C25_SubNodes(tree, parent), node)
    /\ tree'[node].level = tree[parent].level + 1
    /\ C25_SubNodes(tree', node) = <<>>
    /\ \A n \in C25_Below(tree, "root") :
         /\ tree'[n].level = tree[n].level
         /\ n # parent => C25_SubNodes(tree', n) = C25_SubNodes(tree, n)
    /\ C25_LevelsBelow(tree', "root", 0)

C25_RegisterAppends ==
    [][\E parent \in C25_Below(tree, "root"), node \in Nodes \ C25_Below(tree, "root") :
          C25_Registered(parent, node)]_vars

\* five nodes are registered: /food before /drinks below the root, bread
\* before white below /food, and orders below white
C25_Witness ==
    /\ C25_SubNodes(tree, "root") = <<"food", "drinks">>
    /\ C25_SubNodes(tree, "food") = <<"bread", "white">>
    /\ C25_SubNodes(tree, "white") = <<"orders">>
    /\ tree["orders"].level = 3

\* C26: once the record of a single value has been deleted from the backend
\* its handler is bound to (the values were exported, then deleted with the
\* key of the value or of a subtree that holds it), an import with the key
\* of that value returns an error; an import with a key of a subtree
\* returns 0.
C26_ImportAfterDelete ==
    /\ (/\ last.op = "import"
        /\ ResolvesTo(K) \in Handlers \ Arrays
        /\ src_backend[ResolvesTo(K)] # NULL
        /\ kv[K] = <<>>)
       => last.ret # 0
    /\ (last.op = "import" /\ ResolvesTo(K) \in Nodes \ Handlers) => last.ret = 0

\* C27: both iterators come to their end on the handler tree: from every key
\* that resolves, the simple iterator returns NULL after it yielded each
\* node of the subtree at most once and no other node, and the path
\* iterator returns NULL after it yielded no node with the same identifier
\* twice and each node at most as often as the arrays around it and the
\* node itself have items; so every driver's loop ends.
C27_Fuel == 3 * Cardinality(Nodes)

\* the nodes the simple iterator yields from it on, cut after C27_Fuel
RECURSIVE C27_SimpleWalk(_, _)
C27_SimpleWalk(it, acc) ==
    IF it.node = NULL \/ Len(acc) >= C27_Fuel THEN acc
    ELSE C27_SimpleWalk(_configuration_handler_sid_iterator_next(it.iter, it.key),
                        Append(acc, it.node))

C27_SimpleFrom(p, max_depth) ==
    IF p.ret < 0 THEN <<>>
    ELSE C27_SimpleWalk(_configuration_handler_sid_iterator_next(
                            _configuration_iterator_init(p.handler, max_depth), p.key),
                        <<>>)

\* the nodes the path iterator yields from it on, each with the key's
\* identifier, cut after C27_Fuel
RECURSIVE C27_PathWalk(_, _, _, _)
C27_PathWalk(it, sid, whole, acc) ==
    IF it.node = NULL \/ Len(acc) >= C27_Fuel THEN acc
    ELSE C27_PathWalk(_configuration_path_sid_iterator_next(it.iter, it.key, sid, whole),
                      sid, whole, Append(acc, <<it.node, it.key.sid>>))

C27_PathFrom(p, sid, whole) ==
    IF p.ret < 0 THEN <<>>
    ELSE C27_PathWalk(_configuration_path_sid_iterator_next(
                          _configuration_path_iterator_init(p.handler, TRUE, p.key.sid),
                          p.key, sid, whole),
                      sid, whole, <<>>)

\* the number of items of the arrays around n and of n itself
RECURSIVE C27_Times(_)
C27_Times(n) ==
    IF n = "root" THEN 1
    ELSE (IF Node(n).handles_array THEN Node(n).array_size ELSE 1)
         * C27_Times(C24_Parent(n))

C27_Distinct(s) == \A i, j \in 1..Len(s) : s[i] = s[j] => i = j

C27_SimpleEnds(s, p) ==
    /\ C27_Distinct(s)
    /\ \A i \in 1..Len(s) : s[i] \in Subtree(p.handler)

C27_PathEnds(s, p) ==
    /\ C27_Distinct(s)
    /\ \A n \in Nodes : Cardinality({i \in 1..Len(s) : s[i][1] = n}) <= C27_Times(n)
    /\ \A i \in 1..Len(s) : s[i][1] \in Subtree(p.handler)

C27_EndsFrom(p) ==
    /\ \A max_depth \in BOOLEAN : C27_SimpleEnds(C27_SimpleFrom(p, max_depth), p)
    /\ C27_PathEnds(C27_PathFrom(p, K, export_as_a_whole), p)

C27_IteratorsEnd == C27_EndsFrom(_configuration_prepare_sid("root", MkKey(K)))

\* an export of every order item by item has returned: the handler of the
\* items was called twice for each order
C27_Witness ==
    /\ last.op = "export"
    /\ K = TEST_ORDERS_LOWER_SID
    /\ Cardinality({i \in 1..Len(last.cbs) : last.cbs[i].handler = "items"})
         = C27_Times("items")

\* C28: whenever the path iterator yields a node that is a handler, the
\* identifier in the key is one the resolver maps to that handler.
C28_Yields == C27_PathFrom(_configuration_prepare_sid("root", MkKey(K)), K, export_as_a_whole)

C28_YieldedSidResolves ==
    \A i \in 1..Len(C28_Yields) :
        C28_Yields[i][1] \in Handlers => ResolvesTo(C28_Yields[i][2]) = C28_Yields[i][1]

\* the tree is one the resolver finds every node of: the range of a node
\* lies in the range of its parent, off the parent's own identifier, and
\* the ranges of siblings do not meet
C28_Range(n) == Node(n).sid_lower .. Node(n).sid_upper

C28_WellFormed ==
    \A m \in Linked("root") :
        /\ \A c \in Children(m) :
              /\ C28_Range(c) \subseteq C28_Range(m)
              /\ Node(m).sid_lower \notin C28_Range(c)
        /\ \A c, d \in Children(m) : c # d => C28_Range(c) \cap C28_Range(d) = {}

\* C28 on every tree that configuration_register built well-formed
C28_SidOfYield == C28_WellFormed => C28_YieldedSidResolves

\* C29: whenever import, export or delete call a handler the path iterator
\* yielded, the offset in the key is the offset the resolver computes for
\* the key's identifier.
C29_Resolved(cb) == _configuration_prepare_sid("root", MkKey(cb.sid))

C29_OffsetOfYield ==
    last.op \in {"import", "export", "delete"}
        => \A i \in 1..Len(last.cbs) :
              C29_Resolved(last.cbs[i]).ret = 0
                  => last.cbs[i].offset = C29_Resolved(last.cbs[i]).key.offset

\* C30: the resolver stops at the node none of whose sub-nodes has the
\* identifier in its range. That node is the match when the identifier is
\* the node's own, or an item of the node when the node is an array handler;
\* for any other identifier of the node's range the resolver returns
\* -ENOENT, and every driver returns -ENOENT without calling a handler.
C30_SubNodesInRange(n, sid) == {c \in Children(n) : _sid_in_range(c, sid)}

\* the node the descent from n stops at, and the identifier as normalised
\* on the way
RECURSIVE C30_Stop(_, _)
C30_Stop(n, sid) ==
    IF C30_SubNodesInRange(n, sid) = {}
    THEN [node |-> n, sid |-> sid]
    ELSE LET c == CHOOSE c \in C30_SubNodesInRange(n, sid) : TRUE
         IN IF IsArray(c) /\ sid # Node(c).sid_lower
            THEN C30_Stop(c, sid - ItemIndex(c, sid) * Node(c).sid_stride)
            ELSE C30_Stop(c, sid)

C30_IsMatch(s) ==
    \/ s.sid = Node(s.node).sid_lower
    \/ IsArray(s.node) /\ _sid_in_array_bounds(s.node, s.sid)

C30_Resolves(s, p) ==
    IF C30_IsMatch(s)
    THEN p.ret = 0 /\ p.handler = s.node /\ p.key.sid_normal = s.sid
    ELSE /\ p.ret = -ENOENT
         /\ last.op # "none" => last.ret = -ENOENT /\ last.cbs = <<>>

C30_StopsAtNode ==
    C30_Resolves(C30_Stop("root", K), _configuration_prepare_sid("root", MkKey(K)))

\* a get with an identifier of /food that is neither the node's own nor in
\* the range of a sub-node has returned
C30_Witness ==
    /\ last.op = "get"
    /\ C30_Stop("root", K).node = "food"
    /\ K # Node("food").sid_lower
    /\ last.ret = -ENOENT

\* C30 as stated: the node the descent stops at is the match for every
\* identifier of its range
C30_Original ==
    /\ _configuration_prepare_sid("root", MkKey(K)).ret = 0
    /\ _configuration_prepare_sid("root", MkKey(K)).handler = C30_Stop("root", K).node

\* C31: after the resolver matched an array handler with the identifier of
\* one of its items and normalised the identifier, it goes on into the
\* sub-nodes of the array handler with the normalised identifier: the
\* handler returned is the array handler itself when none of its sub-nodes
\* has the normalised identifier in its range, and the sub-node the descent
\* arrives at otherwise, with the offset of the item added to the offset in
\* the sub-node.
C31_Normal(a, sid) == sid - ItemIndex(a, sid) * Node(a).sid_stride

\* the key addresses an item of /orders: the resolver matches the array with
\* an identifier that is not its lower bound
C31_ItemOfOrders ==
    /\ _sid_in_range("orders", K)
    /\ K # Node("orders").sid_lower
    /\ ItemIndex("orders", K) < Node("orders").array_size

C31_Expected ==
    IF C30_SubNodesInRange("orders", C31_Normal("orders", K)) = {}
    THEN [handler |-> "orders", sid_normal |-> C31_Normal("orders", K),
          offset |-> ItemIndex("orders", K) * Node("orders").size]
    ELSE IF C31_Normal("orders", K) = Node("items").sid_lower
    THEN [handler |-> "items", sid_normal |-> Node("items").sid_lower,
          offset |-> ItemIndex("orders", K) * Node("orders").size]
    ELSE [handler |-> "items",
          sid_normal |-> C31_Normal("items", C31_Normal("orders", K)),
          offset |-> ItemIndex("orders", K) * Node("orders").size
                     + ItemIndex("items", C31_Normal("orders", K)) * Node("items").size]

C31_Found(p) ==
    [handler |-> p.handler, sid_normal |-> p.key.sid_normal, offset |-> p.key.offset]

C31_GoesOn(p) ==
    /\ p.ret = 0
    /\ C31_Found(p) = C31_Expected
    /\ last.cbs # <<>> => last.cbs[1].handler = C31_Expected.handler

C31_DescendsIntoItem ==
    C31_ItemOfOrders => C31_GoesOn(_configuration_prepare_sid("root", MkKey(K)))

\* a get of an item of the items of order 1 has called the handler of items
C31_Witness ==
    /\ C31_ItemOfOrders
    /\ ItemIndex("orders", K) = 1
    /\ C31_Expected.handler = "items"
    /\ last.op = "get"
    /\ last.cbs # <<>>

\* C31 as stated: the handler returned is the array handler itself
C31_Original ==
    C31_ItemOfOrders => _configuration_prepare_sid("root", MkKey(K)).handler = "orders"

\* C32: with full depth, as lock and unlock walk, the simple iterator yields
\* the nodes of the subtree of the handler resolved, each once, in pre-order
\* with the sub-nodes of a node in the order of their registration, and no
\* other node; lock takes the mutexes of the handlers among them in that
\* order.
RECURSIVE C32_PreOrder(_), C32_Forest(_)
C32_Forest(n) ==
    IF n = NULL THEN <<>> ELSE C32_PreOrder(n) \o C32_Forest(Node(n).next)

C32_PreOrder(n) == <<n>> \o C32_Forest(Node(n).subnodes)

C32_HasOps(n) == Node(n).ops

C32_IsSuffix(s, t) == Len(s) <= Len(t) /\ s = SubSeq(t, Len(t) - Len(s) + 1, Len(t))

C32_WalkOf(t, p) ==
    p.ret = 0 =>
        /\ C27_SimpleFrom(p, TRUE) = C32_PreOrder(p.handler)
        /\ Len(C32_PreOrder(p.handler)) = Cardinality(Subtree(p.handler))
        /\ \A i \in 1..Len(C32_PreOrder(p.handler)) :
              C32_PreOrder(p.handler)[i] \in Subtree(p.handler)
        /\ pc[t] \in {"locking", "unlocking"}
              => C32_IsSuffix(todo[t], SelectSeq(C32_PreOrder(p.handler), C32_HasOps))

C32_FullWalkIsPreOrder ==
    \A t \in Threads : C32_WalkOf(t, _configuration_prepare_sid("root", MkKey(tkey[t])))

\* a lock of /food has taken the first of its four mutexes
C32_Witness ==
    \E t \in Threads :
        /\ tkey[t] = TEST_FOOD_LOWER_SID
        /\ pc[t] = "locking"
        /\ todo[t] = <<"whole_grain", "cheesecake", "donut">>
        /\ mutex["white"]

\* C33: in a tree whose nodes all have a level of at most D, the stack of
\* either iterator never holds more than D + 1 items, from every node the
\* walk starts at and with every key: no push finds the stack full.  D is
\* taken as the deepest level of the tree, the least CONFIGURATION_DEPTH_MAX
\* the tree is built for.
C33_Max(a, b) == IF a >= b THEN a ELSE b

C33_Depth == CHOOSE d \in 0..Cardinality(Nodes) :
                /\ \A n \in Linked("root") : Node(n).level <= d
                /\ \E n \in Linked("root") : Node(n).level = d

\* the most items the stack of the simple iterator holds from it on
RECURSIVE C33_SimpleMax(_, _, _)
C33_SimpleMax(it, n, m) ==
    IF it.node = NULL \/ n >= C27_Fuel THEN C33_Max(m, Len(it.iter.stack))
    ELSE C33_SimpleMax(_configuration_handler_sid_iterator_next(it.iter, it.key),
                       n + 1, C33_Max(m, Len(it.iter.stack)))

\* the most items the stack of the path iterator holds from it on
RECURSIVE C33_PathMax(_, _, _, _)
C33_PathMax(it, sid, n, m) ==
    IF it.node = NULL \/ n >= C27_Fuel THEN C33_Max(m, Len(it.iter.stack))
    ELSE C33_PathMax(_configuration_path_sid_iterator_next(it.iter, it.key, sid,
                                                           export_as_a_whole),
                     sid, n + 1, C33_Max(m, Len(it.iter.stack)))

C33_StackOf(p, sid) ==
    IF p.ret < 0 THEN 1
    ELSE C33_Max(
           C33_Max(C33_SimpleMax(_configuration_handler_sid_iterator_next(
                                     _configuration_iterator_init(p.handler, TRUE), p.key),
                                 0, 1),
                   C33_SimpleMax(_configuration_handler_sid_iterator_next(
                                     _configuration_iterator_init(p.handler, FALSE), p.key),
                                 0, 1)),
           C33_PathMax(_configuration_path_sid_iterator_next(
                           _configuration_path_iterator_init(p.handler, TRUE, p.key.sid),
                           p.key, sid, export_as_a_whole),
                       sid, 0, 1))

C33_StackBounded ==
    \A sid \in Sids :
        C33_StackOf(_configuration_prepare_sid("root", MkKey(sid)), sid) <= C33_Depth + 1

\* a tree of three levels is registered, and a walk from the root fills the
\* stack with as many items as the tree has levels below the root
C33_Witness ==
    /\ last.op = "register"
    /\ C33_Depth = 3
    /\ C33_StackOf(_configuration_prepare_sid("root", MkKey(0)), 0) = C33_Depth

\* C34: an import, export or delete with the key of one item of an array
\* that is handled item by item calls the handler of the array once, with
\* the caller's identifier and the offset of the item, and no callback of
\* the call addresses cells of another item of that array.
C34_Resolved == _configuration_prepare_sid("root", MkKey(K))

\* the key addresses one item of the array a, which is handled item by item
C34_ItemOf(a) ==
    /\ C34_Resolved.ret = 0
    /\ C34_Resolved.handler = a
    /\ C34_Resolved.key.sid_normal # Node(a).sid_lower
    /\ ~export_as_a_whole[a]

C34_CallsOf(a) == {i \in 1..Len(last.cbs) : last.cbs[i].handler = a /\ last.cbs[i].op = last.op}

\* the cells of the item addressed
C34_Slice(a) ==
    (Node(a).data + C34_Resolved.key.offset)
        .. (Node(a).data + C34_Resolved.key.offset + Node(a).size - 1)

\* the cells callback cb addresses
C34_Cells(cb) ==
    (Node(cb.handler).data + cb.offset)
        .. (Node(cb.handler).data + cb.offset + Node(cb.handler).size - 1)

C34_CalledOnce(a) ==
    /\ Cardinality(C34_CallsOf(a)) = 1
    /\ \A i \in C34_CallsOf(a) :
          /\ last.cbs[i].sid = K
          /\ last.cbs[i].offset = C34_Resolved.key.offset

C34_OnlyThatItem(a) ==
    \A i \in 1..Len(last.cbs) : C34_Cells(last.cbs[i]) \subseteq C34_Slice(a)

C34_ItemOnce ==
    \A a \in Arrays :
        (last.op \in {"import", "export", "delete"} /\ C34_ItemOf(a))
            => C34_CalledOnce(a)

C34_SingleItem ==
    \A a \in Arrays :
        (last.op \in {"import", "export", "delete"} /\ C34_ItemOf(a))
            => C34_CalledOnce(a) /\ C34_OnlyThatItem(a)

\* C35: set, get, verify and apply call only handlers of the resolved
\* subtree that have no handler above them in that subtree: the walk goes
\* through nodes without an ops table and stops at each handler.
RECURSIVE C35_Above(_)
C35_Above(n) ==
    IF n = "root" THEN {} ELSE {C24_Parent(n)} \cup C35_Above(C24_Parent(n))

C35_Topmost(h) ==
    /\ h \in Subtree(ResolvesTo(K))
    /\ \A m \in C35_Above(h) \cap Subtree(ResolvesTo(K)) : ~Node(m).ops

C35_TopmostHandlersOnly ==
    (last.op \in {"set", "get", "verify", "apply"} /\ ResolvesTo(K) # NULL)
        => \A i \in 1..Len(last.cbs) : C35_Topmost(last.cbs[i].handler)

\* a set of the whole array /orders has called the handler of /orders and
\* not the handler of its sub-node
C35_Witness ==
    /\ last.op = "set"
    /\ last.ret = 0
    /\ ResolvesTo(K) = "orders"
    /\ Len(last.cbs) = 1
    /\ last.cbs[1].handler = "orders"

(* ------------------------------------- the per-item loops, called directly *)
\* the export loop over the items of an array with an encoder: enc[at + 1]
\* is what ops_dat->encode returns for item at, fdb[at + 1] what the flash
\* answers to its store. A failed encode leaves the loop body by continue:
\* the for statement still advances data, key->sid is not advanced
RECURSIVE ExportItemsEncoded(_, _, _, _, _, _)
ExportItemsEncoded(env, handler, key, at, enc, fdb) ==
    IF at >= Node(handler).array_size THEN env
    ELSE IF enc[at + 1] # 0
    THEN ExportItemsEncoded(env, handler, key, at + 1, enc, fdb)
    ELSE LET r == be_store([env EXCEPT !.fdb = fdb[at + 1]], handler, key,
                           Node(handler).data + key.offset + at * Node(handler).size,
                           Node(handler).size)
         IN ExportItemsEncoded(r.env, handler,
                               [key EXCEPT !.sid = SidWrap(@ + Node(handler).sid_stride)],
                               at + 1, enc, fdb)

\* the keys that address an array as a whole
ArrayKeys == {s \in Keys : ResolvesTo(s) \in Arrays
                           /\ AddressesWholeArray(ResolvesTo(s),
                                  _configuration_prepare_sid("root", MkKey(s)).key)}

\* the identifiers of the items of the array the key addresses
ItemSids(sid) ==
    {SidWrap(sid + 1 + j * Node(ResolvesTo(sid)).sid_stride) :
        j \in 0..(Node(ResolvesTo(sid)).array_size - 1)}

\* the record of an item in the backend
ItemRecord(s, size) == [j \in 1..size |-> 1 + ((s + j) % MaxVal)]

\* an array handled item by item and bound to one of the backends; any of
\* its items has a record in the backend or has none
InitItems ==
    /\ tree = Tree
    /\ mem \in {InitMem, FilledMem, [i \in 1..NCells |-> i % (MaxVal + 1)]}
    /\ K \in ArrayKeys
    /\ \E present \in SUBSET ItemSids(K) :
          kv = [s \in Sids |-> IF s \in present
                               THEN ItemRecord(s, Node(ResolvesTo(K)).size) ELSE <<>>]
    /\ mutex = [h \in Handlers |-> FALSE]
    /\ \E b \in {"ram", "fdb"} : src_backend = [h \in Handlers |-> b]
    /\ export_as_a_whole = [a \in Arrays |-> FALSE]
    /\ last = NoCall
    /\ exported = NotExported
    /\ tkey = [t \in Threads |-> 0]
    /\ pc = [t \in Threads |-> "idle"]
    /\ todo = [t \in Threads |-> <<>>]

\* handler->ops->import(handler, key) with the default handler, the key
\* prepared by the search
ImportItemsCall ==
    \E p \in {_configuration_prepare_sid("root", MkKey(K))} :
       \E r \in {configuration_import_handler_default(Env, p.handler, p.key,
                                                       export_as_a_whole)} :
          /\ K' = K
          /\ mem' = r.env.mem
          /\ last' = Call("import_items", r.ret, r.env)
          /\ UNCHANGED <<tree, kv, src_backend, mutex, export_as_a_whole>>

\* handler->ops->export(handler, key) with the default handler on an array
\* whose ops_dat has an encoder, the flash answering every store on its own
ExportItemsCall ==
    \E p \in {_configuration_prepare_sid("root", MkKey(K))} :
       \E enc \in [1..Node(p.handler).array_size -> {0, -EINVAL}],
          fdb \in [1..Node(p.handler).array_size -> FlashResults] :
          \E env \in {ExportItemsEncoded(Env, p.handler,
                                         [p.key EXCEPT !.sid = SidWrap(@ + 1)], 0,
                                         enc, fdb)} :
             /\ K' = K
             /\ kv' = env.kv
             /\ last' = [Call("export_items", 0, env) EXCEPT !.enc = enc]
             /\ UNCHANGED <<tree, mem, src_backend, mutex, export_as_a_whole>>

\* handler->ops->delete(handler, key) with the default handler, the flash
\* answering fdb to every delete
DeleteItemsCall ==
    \E p \in {_configuration_prepare_sid("root", MkKey(K))}, fdb \in FlashResults :
       \E r \in {configuration_delete_handler_default([Env EXCEPT !.fdb = fdb],
                                                       p.handler, p.key,
                                                       export_as_a_whole)} :
          /\ K' = K
          /\ kv' = r.env.kv
          /\ last' = Call("delete_items", r.ret, r.env)
          /\ UNCHANGED <<tree, mem, src_backend, mutex, export_as_a_whole>>

NextItems ==
    \/ ImportItemsCall /\ UNCHANGED <<exported, tkey, pc, todo>>
    \/ ExportItemsCall /\ UNCHANGED <<exported, tkey, pc, todo>>
    \/ DeleteItemsCall /\ UNCHANGED <<exported, tkey, pc, todo>>

SpecItems == InitItems /\ [][NextItems]_vars

\* the array the key addresses, its item j's identifier and cells
C36_Array == ResolvesTo(K)

C36_Key == _configuration_prepare_sid("root", MkKey(K)).key

C36_Sid(j) == SidWrap(K + 1 + j * Node(C36_Array).sid_stride)

C36_At(j) == Node(C36_Array).data + C36_Key.offset + j * Node(C36_Array).size

C36_Items == 0..(Node(C36_Array).array_size - 1)

\* item j was loaded under its own identifier into its own cells, whatever
\* became of the other items
C36_Loaded(j) ==
    /\ last.calls[j + 1].op = "load"
    /\ last.calls[j + 1].sid = C36_Sid(j)
    /\ last.calls[j + 1].ret = 0
         => ReadCells(mem, C36_At(j), Node(C36_Array).size) = last.calls[j + 1].data

C36_Deleted(j) ==
    /\ last.calls[j + 1].op = "delete"
    /\ last.calls[j + 1].sid = C36_Sid(j)
    /\ last.calls[j + 1].ret = 0 => kv[C36_Sid(j)] = <<>>

\* item j, when its encoding succeeded, was stored under its own identifier
\* with its own cells
C36_Stored(j) ==
    last.enc[j + 1] = 0 =>
        \E i \in 1..Len(last.calls) :
           /\ last.calls[i].op = "store"
           /\ last.calls[i].sid = C36_Sid(j)
           /\ last.calls[i].data = ReadCells(mem, C36_At(j), Node(C36_Array).size)

\* C36, for the loops of import and delete: a failed load or delete of one
\* item is not returned and every item is loaded or deleted under its own
\* identifier, the load into its own cells
C36_ImportDeleteItems ==
    /\ last.op = "import_items" =>
          /\ last.ret = 0
          /\ Len(last.calls) = Node(C36_Array).array_size
          /\ \A j \in C36_Items : C36_Loaded(j)
    /\ last.op = "delete_items" =>
          /\ last.ret = 0
          /\ Len(last.calls) = Node(C36_Array).array_size
          /\ \A j \in C36_Items : C36_Deleted(j)

\* an item failed and a later one succeeded
C36_ImportWitness ==
    /\ last.op = "import_items"
    /\ \E k, j \in C36_Items :
          k < j /\ last.calls[k + 1].ret # 0 /\ last.calls[j + 1].ret = 0

\* C36: in the per-item loops of the default import, export and delete
\* handlers a failure for one item is not returned and every later item is
\* still processed under its own identifier key.sid + 1 + j * stride with its
\* own cells data + j * size
C36_ItemsIndependent ==
    /\ C36_ImportDeleteItems
    /\ last.op = "export_items" =>
          /\ last.ret = 0
          /\ \A j \in C36_Items : C36_Stored(j)

\* C36 for an export whose encoder never fails: a failed store of one item
\* leaves the later items to their own identifiers
C36_ExportStoreFailure ==
    (last.op = "export_items" /\ \A j \in C36_Items : last.enc[j + 1] = 0) =>
        /\ last.ret = 0
        /\ \A j \in C36_Items : C36_Stored(j)

\* the text the key's buffer holds when the search for K has returned, the
\* buffer being long enough for every path
C37_Resolved == _configuration_prepare_sid("root", MkTextKey(K, last.buf_len))

C37_Sufficient ==
    /\ last.op \in {"get", "export"}
    /\ last.key_buf.used
    /\ ResolvesTo(K) # NULL
    /\ \A n \in Nodes \ {"root"} : last.buf_len >= Len(C24_Path(n)) + 3

\* C37: with a text buffer of sufficient capacity, after the key resolves the
\* buffer holds "/" and the segment of every node from the root to the
\* resolved handler, in that order, and "/" and the decimal index after the
\* segment of an array whose item is addressed
C37_PathInBuffer ==
    C37_Sufficient =>
        /\ C37_Resolved.ret = 0
        /\ ~C37_Resolved.key.buf.over
        /\ C37_Resolved.key.buf.text = C24_Path(ResolvesTo(K))

\* C37 for the handlers directly below the root: the buffer holds the path
C37_FirstLevelPath ==
    (C37_Sufficient /\ Node(ResolvesTo(K)).level = 1) =>
        /\ C37_Resolved.ret = 0
        /\ C37_Resolved.key.buf.text = C24_Path(ResolvesTo(K))

\* the handlers called during the last call, in the order of the calls
C38_Visited == [i \in 1..Len(last.cbs) |-> last.cbs[i].handler]

\* the handlers the same call visits when the key has no text buffer, so
\* that no segment is appended and the traversal is complete
C38_Complete ==
    IF last.op = "get"
    THEN _configuration_handler_get_internal("root", MkKey(K), Env,
                                             [j \in 1..last.size |-> Unwritten],
                                             last.size).env.cbs
    ELSE _configuration_handler_export_internal("root", MkKey(K), Env,
                                                export_as_a_whole).env.cbs

\* C38: a driver does not report success after an incomplete traversal: when
\* a segment or an index cannot be appended to the key's text buffer during
\* the iteration, the call does not return 0 with handlers left unvisited
C38_NoSilentStop ==
    (/\ last.op \in {"get", "export"}
     /\ last.key_buf.used
     /\ ~last.key_buf.over
     /\ last.ret = 0)
    => Len(last.cbs) = Len(C38_Complete)

\* a thread inside configuration_lock that waits for a mutex another holds
C39_Blocked(t) == pc[t] = "locking" /\ mutex[Head(todo[t])]

C40_ItemOfWholeArray ==
    /\ ResolvesTo(K) \in Arrays
    /\ export_as_a_whole[ResolvesTo(K)]
    /\ src_backend[ResolvesTo(K)] # NULL
    /\ ~AddressesWholeArray(ResolvesTo(K), _configuration_prepare_sid("root", MkKey(K)).key)

\* C40: for an array handler exported as a whole, import, export and delete
\* with the key of a single item make no backend call and return 0, so
\* that memory and the backend's records stay as they are
C40_ItemIgnored ==
    (last.op \in {"import", "export", "delete"} /\ C40_ItemOfWholeArray)
    => (last.calls = <<>> /\ last.ret = 0)

\* C40 for the default handlers called with the key as the search leaves it:
\* each returns 0 and leaves memory, the records and the list of backend
\* calls as they were
C40_HandlerIgnoresItem ==
    C40_ItemOfWholeArray =>
        \A r \in {configuration_import_handler_default(
                      Env, ResolvesTo(K),
                      _configuration_prepare_sid("root", MkKey(K)).key, export_as_a_whole),
                  configuration_export_handler_default(
                      Env, ResolvesTo(K),
                      _configuration_prepare_sid("root", MkKey(K)).key, export_as_a_whole),
                  configuration_delete_handler_default(
                      Env, ResolvesTo(K),
                      _configuration_prepare_sid("root", MkKey(K)).key, export_as_a_whole)} :
            r.ret = 0 /\ r.env = Env

====
